---- MODULE Spec2Model ----
(***************************************************************************)
(* A model of the synthetic call-centre dataset generator                  *)
(* (src/generator): the hash-seeded random stream manager, the weight      *)
(* resolver, the volume allocator and the record assembly loop of          *)
(* generate_dataset with its identity cache, schema validation and         *)
(* persistence.                                                            *)
(*                                                                         *)
(* Text is modelled as sequences of code points (the UTF-8 bytes of the    *)
(* ASCII characters used), floats as integers in fixed units, and a        *)
(* probability as a pair <<numerator, denominator>>.  The additions of the *)
(* weight resolver round as float additions do, at a narrower significand. *)
(***************************************************************************)
EXTENDS Integers, Sequences, FiniteSets, TLC

VARIABLES
    mgr,        \* the DeterministicRNG instance: global_seed and the position of _root
    gens,       \* the generators handed out by seed_for (first call kept, latest call)
    wfam,       \* the configuration namespace of one weight family (intents, ...)
    wcfg,       \* the tables configured in that namespace, by path
    wout,       \* the table last returned by the weight resolver
    aseed,      \* the global seed of the allocation
    aday,       \* the day being allocated: is_weekend and the estimated volume
    acfg,       \* the allocation, shift and bucket tables of the configuration
    plan,       \* the counts split so far: by agent, by shift, by time bucket
    astatus,    \* where the split cascade stands
    seed,       \* generate_dataset's seed argument
    config,     \* generate_dataset's cfg argument
    validate,   \* generate_dataset's validate argument
    entropy,    \* the process's source of entropy (os.urandom, hash randomisation)
    run,        \* which execution of generate_dataset is under way
    todo,       \* the loop iterations the execution has still to make
    ani_cache,  \* the identity cache: customer key -> ANI, region, language
    files,      \* out_dir: the records written, one file per (date, call_id)
    status,     \* "running", "returned", or the exception that ended the execution
    first,      \* the out_dir and status the first execution ended with
    fcall,      \* a function of the package under call: its name and arguments
    fret,       \* whether it has returned, and the value it returned
    pc,         \* the statement of the loop body about to execute (0: between calls)
    locals      \* the locals of the loop body: ctx, call, op, the cache, ...

rngVars == <<mgr, gens>>
weightVars == <<wfam, wcfg, wout>>
allocVars == <<aseed, aday, acfg, plan, astatus>>
genVars == <<seed, config, validate, entropy, run, todo, ani_cache, files, status, first>>
callVars == <<fcall, fret>>
stepVars == <<pc, locals>>
vars == <<mgr, gens, wfam, wcfg, wout, aseed, aday, acfg, plan, astatus,
          seed, config, validate, entropy, run, todo, ani_cache, files, status, first,
          fcall, fret, pc, locals>>

(***************************************************************************)
(* Generic helpers                                                         *)
(***************************************************************************)
Range(s) == {s[i] : i \in DOMAIN s}

RECURSIVE SeqsUpTo(_, _)
\* all sequences over S of length at most n
SeqsUpTo(S, n) ==
    IF n = 0 THEN {<<>>}
    ELSE LET shorter == SeqsUpTo(S, n - 1)
         IN  shorter \cup {Append(s, x) : s \in shorter, x \in S}

(***************************************************************************)
(* Each part of the generator is checked under a specification of its own; *)
(* the variables of the other parts then rest at these values.             *)
(***************************************************************************)
EmptyTable == [k \in {} |-> 0]

NoTable == [fn |-> "none", outage_flag |-> FALSE, app_issue_flag |-> FALSE,
            hour_lt_18 |-> FALSE, table |-> EmptyTable]

RngIdle == mgr = [global_seed |-> 0, root_pos |-> 0] /\ gens = <<>>

WeightsIdle == wfam = "none" /\ wcfg = EmptyTable /\ wout = NoTable

AllocIdle ==
    /\ aseed = 0
    /\ aday = [is_weekend |-> FALSE, estimated |-> 0]
    /\ acfg = <<>>
    /\ plan = <<>>
    /\ astatus = "idle"

NoRun == [files |-> {}, status |-> "none", entropy |-> 0]

GenIdle ==
    /\ seed = 0
    /\ config = <<>>
    /\ validate = FALSE
    /\ entropy = 0
    /\ run = 0
    /\ todo = <<>>
    /\ ani_cache = <<>>
    /\ files = {}
    /\ status = "idle"
    /\ first = NoRun

CallIdle == fcall = [name |-> "none"] /\ fret = [done |-> FALSE]

StepIdle == pc = 0 /\ locals = <<>>

(***************************************************************************)
(* Bounds of the random stream manager's inputs                            *)
(***************************************************************************)
MaxKeyLen == 1      \* longest key tuple
MaxRootDraws == 1   \* draws taken from the root generator

Seeds == {7, 42}
\* code points: 39 is the single quote, 49 the digit 1, 44 the comma, 32 the
\* space, 40 and 41 the parentheses.  The string elements tried: "", "1", "'"
\* and "1', '1" (text that looks like the separator between two elements)
Strings == {<<>>, <<49>>, <<39>>, <<49, 39, 44, 32, 39, 49>>}
KeyItems == {<<"str", s>> : s \in Strings} \cup {<<"int", <<1>>>>, <<"bool", <<1>>>>}
TupleKeys == {<<"tuple", t>> : t \in SeqsUpTo(KeyItems, MaxKeyLen)}
\* the raw-bytes keys tried: b"", b"1", b"()", b"(1,)" and b"('1',)"
BytesKeys == {<<"bytes", b>> : b \in {<<>>, <<49>>, <<40, 41>>, <<40, 49, 44, 41>>,
                                        <<40, 39, 49, 39, 44, 41>>}}
Keys == TupleKeys \cup BytesKeys

(***************************************************************************)
(* repr() of the key and the bytes seed_for hashes (src/generator/rng.py)  *)
(***************************************************************************)
RECURSIVE Digits(_)
Digits(n) == IF n < 10 THEN <<48 + n>> ELSE Digits(n \div 10) \o <<48 + (n % 10)>>

\* repr(int): decimal digits, a minus sign (45) for negatives
ReprInt(n) == IF n < 0 THEN <<45>> \o Digits(0 - n) ELSE Digits(n)

\* repr(bool): True / False
ReprBool(b) == IF b = 1 THEN <<84, 114, 117, 101>> ELSE <<70, 97, 108, 115, 101>>

RECURSIVE Escape(_, _)
\* the body of repr(str): the quote in use and the backslash (92) are escaped
Escape(s, q) ==
    IF s = <<>> THEN <<>>
    ELSE (IF Head(s) = q \/ Head(s) = 92 THEN <<92, Head(s)>> ELSE <<Head(s)>>)
         \o Escape(Tail(s), q)

\* a plausible slip: str(x) in place of repr(x), the text without its quotes
ReprStrUnquoted(s) == s

\* repr(str): single quotes, double quotes (34) when the text holds a single
\* quote and no double quote
ReprStr(s) ==
    LET q == IF 39 \in Range(s) /\ 34 \notin Range(s) THEN 34 ELSE 39
    IN  <<q>> \o Escape(s, q) \o <<q>>

ReprItem(it) ==
    CASE it[1] = "str" -> ReprStr(it[2])
      [] it[1] = "int" -> ReprInt(it[2][1])
      [] it[1] = "bool" -> ReprBool(it[2][1])

RECURSIVE JoinItems(_)
\* ", ".join(repr(x) for x in items)
JoinItems(items) ==
    IF items = <<>> THEN <<>>
    ELSE IF Len(items) = 1 THEN ReprItem(items[1])
    ELSE ReprItem(Head(items)) \o <<44, 32>> \o JoinItems(Tail(items))

\* repr(tuple): "()", "(x,)", "(x, y)"
ReprTuple(items) ==
    <<40>> \o JoinItems(items) \o (IF Len(items) = 1 THEN <<44>> ELSE <<>>) \o <<41>>

\* rng.py line 22: data = key if isinstance(key, bytes) else repr(key).encode("utf-8")
KeyData(key) == IF key[1] = "bytes" THEN key[2] ELSE ReprTuple(key[2])

\* int.to_bytes(8, "big", signed=False)
ToBytes8(n) == [i \in 1..8 |-> IF i < 5 THEN 0
                               ELSE (n \div (CASE i = 5 -> 16777216 [] i = 6 -> 65536
                                               [] i = 7 -> 256 [] i = 8 -> 1)) % 256]

\* rng.py line 23: combined = global_seed.to_bytes(8, "big") + data
Combined(global_seed, key) == ToBytes8(global_seed) \o KeyData(key)

RECURSIVE FoldRange(_, _, _, _)
\* the fold of data[lo..hi] into h, byte by byte from the left. The range is
\* halved and the left half evaluated first (the test on it is always false) to
\* keep the evaluation shallow.
FoldRange(h, data, lo, hi) ==
    IF lo > hi THEN h
    ELSE IF lo = hi THEN (h * 31 + data[lo]) % 65521
    ELSE LET mid == (lo + hi) \div 2
             left == FoldRange(h, data, lo, mid)
         IN  IF left < 0 THEN left ELSE FoldRange(left, data, mid + 1, hi)

Fold(h, data) == FoldRange(h, data, 1, Len(data))

\* the 8-byte digest read as an unsigned integer; the digest function itself is
\* abstracted by a polynomial fold of the bytes (narrower than 64 bits)
HashToUint64(data) == Fold(7, data)

\* the n-th draw of np.random.default_rng(seed_int), as a level in 0..res-1
RngUniform(seed_int, n, res) == ((seed_int * 7 + n * 13 + (seed_int \div 16) + 3) % 251) % res

\* a plausible slip: the derived seed taken from the root generator's stream
SeedForFromRoot(m, key) ==
    LET combined == Combined(m.global_seed, key)
    IN  [gen |-> [key |-> key, data |-> combined,
                  seed_int |-> HashToUint64(combined \o <<m.root_pos>>)],
         mgr |-> [m EXCEPT !.root_pos = (m.root_pos + 1) % (MaxRootDraws + 1)]]

\* DeterministicRNG.seed_for: the generator returned and the manager afterwards
SeedFor(m, key) ==
    LET combined == Combined(m.global_seed, key)
    IN  [gen |-> [key |-> key, data |-> combined, seed_int |-> HashToUint64(combined)],
         mgr |-> m]

(***************************************************************************)
(* The weight resolver (src/generator/weights.py)                          *)
(***************************************************************************)
MaxAdj == 2     \* adjustment tables present in the configuration namespace

WLabels == {"Transfer", "Loan"}
TablesOver(W) == UNION {[D -> W] : D \in SUBSET WLabels}
BaseTables == TablesOver({0, 1})
AdjTables == TablesOver({0 - 2, 2}) \ {EmptyTable}

\* the adjustment paths each resolver reads below its namespace, in order
AdjPaths(fam) ==
    CASE fam = "intents" -> {"time_of_day", "agent", "segment", "incident.outage",
                             "incident.app_issue"}
      [] fam = "scenarios" -> {"agent", "intent", "incident.outage"}
      [] fam = "channels" -> {"time_of_day_adjustment"}
      [] fam = "devices" -> {"channel_overrides"}
      [] fam = "products" -> {"outage_adjustment", "hour_lt_18_adjustment"}
WFamilies == {"intents", "scenarios", "channels", "devices", "products"}

\* config.get(cfg, "<family>.<path>", {}) on the namespace
WGet(cfg, path) == IF path \in DOMAIN cfg THEN cfg[path] ELSE EmptyTable

TableGet(t, k, d) == IF k \in DOMAIN t THEN t[k] ELSE d

Max(a, b) == IF a >= b THEN a ELSE b
Min(a, b) == IF a <= b THEN a ELSE b

RECURSIVE SumOver(_, _)
\* sum(f[k] for k in D)
SumOver(f, D) ==
    IF D = {} THEN 0
    ELSE LET k == CHOOSE x \in D : TRUE IN f[k] + SumOver(f, D \ {k})

\* round(n / d) to the nearest integer, ties to even, for n >= 0
RoundHalfEven(n, d) ==
    LET q == n \div d
        r == n % d
    IN  IF 2 * r < d THEN q
        ELSE IF 2 * r > d THEN q + 1
        ELSE IF q % 2 = 0 THEN q ELSE q + 1

\* the significant bits a float keeps in the model (binary64 keeps 53)
MantissaBits == 4

RECURSIVE BitLength(_)
\* int.bit_length
BitLength(n) == IF n = 0 THEN 0 ELSE 1 + BitLength(n \div 2)

\* the float nearest to the exact value x, ties to the even significand
RoundFloat(x) ==
    LET a == IF x < 0 THEN 0 - x ELSE x
        ulp == 2 ^ Max(0, BitLength(a) - MantissaBits)
    IN  (IF x < 0 THEN 0 - 1 ELSE 1) * RoundHalfEven(a, ulp) * ulp

\* x + y on floats: the exact sum, rounded
FloatAdd(x, y) == RoundFloat(x + y)

\* _apply_adjustments: out = dict(base); out[k] = out.get(k, 0.0) + float(v)
ApplyAdjustments(base, adjustments) ==
    [k \in DOMAIN base \cup DOMAIN adjustments |->
        IF k \in DOMAIN adjustments
        THEN FloatAdd(TableGet(base, k, 0), adjustments[k])
        ELSE base[k]]

\* _normalize (and DeterministicRNG.normalize): each weight as <<num, den>>, the
\* total and the quotient kept exact
Normalize(weights) ==
    LET clamped == [k \in DOMAIN weights |-> Max(0, weights[k])]
        total == SumOver(clamped, DOMAIN weights)
    IN  IF total <= 0
        THEN [k \in DOMAIN weights |-> <<1, Max(Cardinality(DOMAIN weights), 1)>>]
        ELSE [k \in DOMAIN weights |-> <<clamped[k], total>>]

intent_weights(cfg, outage_flag, app_issue_flag) ==
    LET w0 == WGet(cfg, "base")
        w1 == ApplyAdjustments(w0, WGet(cfg, "time_of_day"))
        w2 == ApplyAdjustments(w1, WGet(cfg, "agent"))
        w3 == ApplyAdjustments(w2, WGet(cfg, "segment"))
        w4 == IF outage_flag THEN ApplyAdjustments(w3, WGet(cfg, "incident.outage")) ELSE w3
        w5 == IF app_issue_flag THEN ApplyAdjustments(w4, WGet(cfg, "incident.app_issue")) ELSE w4
    IN  Normalize(w5)

scenario_weights(cfg, outage_flag) ==
    LET w0 == WGet(cfg, "base")
        w1 == ApplyAdjustments(w0, WGet(cfg, "agent"))
        w2 == ApplyAdjustments(w1, WGet(cfg, "intent"))
        w3 == IF outage_flag THEN ApplyAdjustments(w2, WGet(cfg, "incident.outage")) ELSE w2
    IN  Normalize(w3)

channel_weights(cfg) ==
    Normalize(ApplyAdjustments(WGet(cfg, "base"), WGet(cfg, "time_of_day_adjustment")))

device_weights(cfg) ==
    Normalize(ApplyAdjustments(WGet(cfg, "base"), WGet(cfg, "channel_overrides")))

product_weights(cfg, outage_flag, hour_lt_18) ==
    LET w0 == WGet(cfg, "base")
        w1 == IF outage_flag THEN ApplyAdjustments(w0, WGet(cfg, "outage_adjustment")) ELSE w0
        w2 == IF hour_lt_18 THEN ApplyAdjustments(w1, WGet(cfg, "hour_lt_18_adjustment")) ELSE w1
    IN  Normalize(w2)

\* the namespaces the configuration can hold for one family: a base table or none,
\* and at most MaxAdj of the family's adjustment tables
WConfigs(fam) ==
    LET adjs == UNION {[P -> AdjTables] : P \in {Q \in SUBSET AdjPaths(fam) : Cardinality(Q) <= MaxAdj}}
    IN  adjs \cup {[p \in DOMAIN a \cup {"base"} |-> IF p = "base" THEN b ELSE a[p]] :
                      a \in adjs, b \in BaseTables}

WeightsInit ==
    /\ wfam \in WFamilies
    /\ wcfg \in WConfigs(wfam)
    /\ wout = NoTable
    /\ RngIdle
    /\ AllocIdle
    /\ GenIdle
    /\ CallIdle
    /\ StepIdle

Returned(fn, o, a, h, t) ==
    /\ wout' = [fn |-> fn, outage_flag |-> o, app_issue_flag |-> a, hour_lt_18 |-> h, table |-> t]
    /\ UNCHANGED <<wfam, wcfg, rngVars, allocVars, genVars, callVars, stepVars>>

ResolveIntent ==
    /\ wfam = "intents"
    /\ \E o, a \in BOOLEAN : Returned("intent_weights", o, a, FALSE, intent_weights(wcfg, o, a))

ResolveScenario ==
    /\ wfam = "scenarios"
    /\ \E o \in BOOLEAN : Returned("scenario_weights", o, FALSE, FALSE, scenario_weights(wcfg, o))

ResolveChannel ==
    /\ wfam = "channels"
    /\ Returned("channel_weights", FALSE, FALSE, FALSE, channel_weights(wcfg))

ResolveDevice ==
    /\ wfam = "devices"
    /\ Returned("device_weights", FALSE, FALSE, FALSE, device_weights(wcfg))

ResolveProduct ==
    /\ wfam = "products"
    /\ \E o, h \in BOOLEAN : Returned("product_weights", o, FALSE, h, product_weights(wcfg, o, h))

\* DeterministicRNG.normalize on the namespace's base table
RngNormalize == Returned("normalize", FALSE, FALSE, FALSE, Normalize(WGet(wcfg, "base")))

WeightsNext ==
    \/ ResolveIntent
    \/ ResolveScenario
    \/ ResolveChannel
    \/ ResolveDevice
    \/ ResolveProduct
    \/ RngNormalize

SpecWeights == WeightsInit /\ [][WeightsNext]_vars

\* the weights of a returned table add up to 1: one denominator, the numerators
\* adding up to it
SumIsOne(t) ==
    \E d \in {t[k][2] : k \in DOMAIN t} :
        /\ \A k \in DOMAIN t : t[k][2] = d
        /\ SumOver([k \in DOMAIN t |-> t[k][1]], DOMAIN t) = d

\* C6 as claimed: every table the resolver returns has every weight >= 0 and
\* weights adding up to 1, whatever base and adjustment tables are configured.
C6_ReturnedTableIsDistribution ==
    wout.fn # "none"
    => /\ \A k \in DOMAIN wout.table : wout.table[k][1] >= 0 /\ wout.table[k][2] > 0
       /\ SumIsOne(wout.table)

\* str.encode("utf-8") of the text values that occur in keys
Utf8(s) ==
    CASE s = "" -> <<>>
      [] s = "split_by_agent" -> <<115, 112, 108, 105, 116, 95, 98, 121, 95, 97, 103, 101, 110, 116>>
      [] s = "split_by_shift" -> <<115, 112, 108, 105, 116, 95, 98, 121, 95, 115, 104, 105, 102, 116>>
      [] s = "split_by_time_buckets" -> <<115, 112, 108, 105, 116, 95, 98, 121, 95, 116, 105, 109, 101, 95, 98, 117, 99, 107, 101, 116, 115>>
      [] s = "segment" -> <<115, 101, 103, 109, 101, 110, 116>>
      [] s = "channel" -> <<99, 104, 97, 110, 110, 101, 108>>
      [] s = "region" -> <<114, 101, 103, 105, 111, 110>>
      [] s = "language" -> <<108, 97, 110, 103, 117, 97, 103, 101>>
      [] s = "device" -> <<100, 101, 118, 105, 99, 101>>
      [] s = "intent_count" -> <<105, 110, 116, 101, 110, 116, 95, 99, 111, 117, 110, 116>>
      [] s = "intent" -> <<105, 110, 116, 101, 110, 116>>
      [] s = "scenario" -> <<115, 99, 101, 110, 97, 114, 105, 111>>
      [] s = "product" -> <<112, 114, 111, 100, 117, 99, 116>>
      [] s = "amount" -> <<97, 109, 111, 117, 110, 116>>
      [] s = "ssp" -> <<115, 115, 112>>
      [] s = "action" -> <<97, 99, 116, 105, 111, 110>>
      [] s = "ani" -> <<97, 110, 105>>
      [] s = "day" -> <<100, 97, 121>>
      [] s = "incident_boost" -> <<105, 110, 99, 105, 100, 101, 110, 116, 95, 98, 111, 111, 115, 116>>
      [] s = "outages" -> <<111, 117, 116, 97, 103, 101, 115>>
      [] s = "Monika_Mueller" -> <<77, 111, 110, 105, 107, 97, 95, 77, 117, 101, 108, 108, 101, 114>>
      [] s = "Lukas_Schmidt" -> <<76, 117, 107, 97, 115, 95, 83, 99, 104, 109, 105, 100, 116>>
      [] s = "Early" -> <<69, 97, 114, 108, 121>>
      [] s = "Late" -> <<76, 97, 116, 101>>
      [] s = "Mid" -> <<77, 105, 100>>
      [] s = "Morning" -> <<77, 111, 114, 110, 105, 110, 103>>
      [] s = "Evening" -> <<69, 118, 101, 110, 105, 110, 103>>
      [] s = "Afternoon" -> <<65, 102, 116, 101, 114, 110, 111, 111, 110>>
      [] s = "Night" -> <<78, 105, 103, 104, 116>>
      [] s = "voice" -> <<118, 111, 105, 99, 101>>
      [] s = "text" -> <<116, 101, 120, 116>>
      [] s = "Text" -> <<84, 101, 120, 116>>
      [] s = "Premium" -> <<80, 114, 101, 109, 105, 117, 109>>
      [] s = "Standard" -> <<83, 116, 97, 110, 100, 97, 114, 100>>
      [] s = "ZH" -> <<90, 72>>
      [] s = "BE" -> <<66, 69>>
      [] s = "XX" -> <<88, 88>>
      [] s = "DE" -> <<68, 69>>
      [] s = "FR" -> <<70, 82>>
      [] s = "EN" -> <<69, 78>>
      [] s = "Online-Banking" -> <<79, 110, 108, 105, 110, 101, 45, 66, 97, 110, 107, 105, 110, 103>>
      [] s = "Transfer" -> <<84, 114, 97, 110, 115, 102, 101, 114>>
      [] s = "Technical Support" -> <<84, 101, 99, 104, 110, 105, 99, 97, 108, 32, 83, 117, 112, 112, 111, 114, 116>>
      [] s = "Loan" -> <<76, 111, 97, 110>>
      [] s = "Hypothek" -> <<72, 121, 112, 111, 116, 104, 101, 107>>
      [] s = "Login" -> <<76, 111, 103, 105, 110>>
      [] s = "Card" -> <<67, 97, 114, 100>>
      [] s = "Login problem" -> <<76, 111, 103, 105, 110, 32, 112, 114, 111, 98, 108, 101, 109>>
      [] s = "Card blocked" -> <<67, 97, 114, 100, 32, 98, 108, 111, 99, 107, 101, 100>>
      [] s = "iOS" -> <<105, 79, 83>>
      [] s = "Android" -> <<65, 110, 100, 114, 111, 105, 100>>
      [] s = "Desktop" -> <<68, 101, 115, 107, 116, 111, 112>>
      [] s = "2024-01-01" -> <<50, 48, 50, 52, 45, 48, 49, 45, 48, 49>>
      [] s = "2024-01-02" -> <<50, 48, 50, 52, 45, 48, 49, 45, 48, 50>>
      [] s = "2024-01-03" -> <<50, 48, 50, 52, 45, 48, 49, 45, 48, 51>>
      [] s = "2024-01-04" -> <<50, 48, 50, 52, 45, 48, 49, 45, 48, 52>>
      [] s = "2024-01-05" -> <<50, 48, 50, 52, 45, 48, 49, 45, 48, 53>>
      [] s = "2024-01-06" -> <<50, 48, 50, 52, 45, 48, 49, 45, 48, 54>>
      [] s = "2024-01-07" -> <<50, 48, 50, 52, 45, 48, 49, 45, 48, 55>>
      [] s = "2024-01-08" -> <<50, 48, 50, 52, 45, 48, 49, 45, 48, 56>>
      [] s = "2024-01-09" -> <<50, 48, 50, 52, 45, 48, 49, 45, 48, 57>>
      [] s = "2024-01-10" -> <<50, 48, 50, 52, 45, 48, 49, 45, 49, 48>>
      [] s = "2024-01-11" -> <<50, 48, 50, 52, 45, 48, 49, 45, 49, 49>>
      [] s = "2024-01-12" -> <<50, 48, 50, 52, 45, 48, 49, 45, 49, 50>>
      [] s = "2024-01-13" -> <<50, 48, 50, 52, 45, 48, 49, 45, 49, 51>>
      [] s = "2024-01-14" -> <<50, 48, 50, 52, 45, 48, 49, 45, 49, 52>>
      [] s = "2024-01-15" -> <<50, 48, 50, 52, 45, 48, 49, 45, 49, 53>>
      [] s = "2024-01-16" -> <<50, 48, 50, 52, 45, 48, 49, 45, 49, 54>>
      [] s = "2024-01-17" -> <<50, 48, 50, 52, 45, 48, 49, 45, 49, 55>>
      [] s = "2024-01-18" -> <<50, 48, 50, 52, 45, 48, 49, 45, 49, 56>>
      [] s = "2024-01-19" -> <<50, 48, 50, 52, 45, 48, 49, 45, 49, 57>>
      [] s = "Low" -> <<76, 111, 119>>
      [] s = "High" -> <<72, 105, 103, 104>>
      [] s = "Medium" -> <<77, 101, 100, 105, 117, 109>>
      [] s = "reset password" -> <<114, 101, 115, 101, 116, 32, 112, 97, 115, 115, 119, 111, 114, 100>>
      [] s = "check balance" -> <<99, 104, 101, 99, 107, 32, 98, 97, 108, 97, 110, 99, 101>>
      [] s = "<100" -> <<60, 49, 48, 48>>
      [] s = ">5000" -> <<62, 53, 48, 48, 48>>

KStr(s) == <<"str", Utf8(s)>>
KInt(n) == <<"int", <<n>>>>
KBool(b) == <<"bool", <<IF b THEN 1 ELSE 0>>>>
Key(items) == <<"tuple", items>>

(***************************************************************************)
(* The volume allocator (src/generator/rng.py, src/generator/volume.py)    *)
(***************************************************************************)
MaxVolume == 2      \* largest estimated daily volume

\* a binomial draw of n trials with probability pn/pd, read off the level u of
\* the generator's stream (u in 0..7)
Binomial(n, pn, pd, u) ==
    IF n = 0 \/ pn <= 0 THEN 0
    ELSE IF pn >= pd THEN n
    ELSE (u * (n + 1)) \div 8

RECURSIVE MultinomialDraw(_, _, _, _, _)
\* Generator.multinomial: one conditional binomial per category, the last
\* category takes what remains
MultinomialDraw(remaining, ws, wrem, seed_int, j) ==
    IF Len(ws) = 1 THEN <<remaining>>
    ELSE LET c == Binomial(remaining, ws[1], wrem, RngUniform(seed_int, j, 8))
         IN  <<c>> \o MultinomialDraw(remaining - c, Tail(ws), wrem - ws[1], seed_int, j + 1)

\* DeterministicRNG.multinomial_split; ratios is the table as a sequence of
\* <<key, weight>>, the result the counts by key, or raised when numpy rejects
\* the probabilities (no category, or a probability outside [0, 1])
MultinomialSplit(total, ratios, seed_int) ==
    LET n == Len(ratios)
        probs == [i \in 1..n |-> ratios[i][2]]
        psum == SumOver(probs, 1..n)
        ws == IF psum <= 0 THEN [i \in 1..n |-> 1] ELSE probs
        wsum == IF psum <= 0 THEN n ELSE psum
    IN  IF total > 0
        THEN IF n = 0 \/ \E i \in 1..n : ws[i] < 0 \/ ws[i] > wsum
             THEN [raised |-> TRUE, counts |-> <<>>]
             ELSE LET draws == MultinomialDraw(total, ws, wsum, seed_int, 0)
                  IN  [raised |-> FALSE, counts |-> [i \in 1..n |-> <<ratios[i][1], draws[i]>>]]
        ELSE [raised |-> FALSE, counts |-> [i \in 1..n |-> <<ratios[i][1], 0>>]]

\* the key each split helper derives its generator from (volume.py lines 38,
\* 44 and 50)
SplitKey(fn, is_weekend, agent, volume) ==
    CASE fn = "split_by_agent" -> Key(<<KStr(fn), KBool(is_weekend), KInt(volume)>>)
      [] fn = "split_by_shift" -> Key(<<KStr(fn), KStr(agent)>>)
      [] fn = "split_by_time_buckets" -> Key(<<KStr(fn), KBool(is_weekend), KInt(volume)>>)

\* DeterministicRNG.multinomial_split on the instance constructed with self_seed
\* (rng.py lines 40-47): r = rng or self._root, where rng is <<>> for None and
\* <<seed_int>> for a generator, and _root is default_rng(self_seed)
multinomial_split(self_seed, total, ratios, rng) ==
    MultinomialSplit(total, ratios, IF rng = <<>> THEN self_seed ELSE rng[1])

\* the constant the split helpers construct their DeterministicRNG with
HelperSeed == 0

\* a plausible slip: the helper passes no generator, the draws come from the
\* _root of the instance it constructed
SplitOnRoot(c, fn, total, is_weekend, agent, table, global_seed) ==
    multinomial_split(c, total, table, <<>>)

\* the body shared by the three helpers, on DeterministicRNG(c): the generator
\* of the run's rng for the helper's key is handed to multinomial_split
SplitOn(c, fn, total, is_weekend, agent, table, global_seed) ==
    multinomial_split(c, total, table,
        <<SeedFor([global_seed |-> global_seed, root_pos |-> 0],
                  SplitKey(fn, is_weekend, agent, total)).gen.seed_int>>)

split_by_agent(daily_volume, is_weekend, alloc, global_seed) ==
    SplitOn(HelperSeed, "split_by_agent", daily_volume, is_weekend, "", alloc, global_seed)

split_by_shift(agent, agent_volume, profile, global_seed) ==
    SplitOn(HelperSeed, "split_by_shift", agent_volume, FALSE, agent, profile, global_seed)

split_by_time_buckets(shift_block, is_weekend, bucket_profile, global_seed) ==
    SplitOn(HelperSeed, "split_by_time_buckets", shift_block, is_weekend, "", bucket_profile,
            global_seed)

\* the tables tried for a level with the keys k1, k2: the path absent (the {}
\* default), one key, even weights, all-zero weights, a zero weight, a negative one
RatioTables(k1, k2) ==
    {<<>>, << <<k1, 1>> >>, << <<k1, 1>>, <<k2, 1>> >>, << <<k1, 0>>, <<k2, 0>> >>,
     << <<k1, 0>>, <<k2, 2>> >>, << <<k1, 2>>, <<k2, 0 - 1>> >>}

AAgents == {"Monika_Mueller", "Lukas_Schmidt"}
AllocTables == RatioTables("Monika_Mueller", "Lukas_Schmidt")
ShiftTables == RatioTables("Early", "Late")
BucketTables == RatioTables("Morning", "Evening")


AllocInit ==
    /\ aseed \in Seeds
    /\ aday \in [is_weekend : BOOLEAN, estimated : 0..MaxVolume]
    /\ acfg \in [allocation : AllocTables, shifts : [AAgents -> ShiftTables], buckets : BucketTables]
    /\ plan = [by_agent |-> <<>>, by_shift |-> <<>>, by_bucket |-> <<>>]
    /\ astatus = "start"
    /\ RngIdle
    /\ WeightsIdle
    /\ GenIdle
    /\ CallIdle
    /\ StepIdle

\* cli.py line 26: by_agent = split_by_agent(vol.estimated, day.is_weekend, cfg, rng)
SplitByAgent ==
    /\ astatus = "start"
    /\ LET r == split_by_agent(aday.estimated, aday.is_weekend, acfg.allocation, aseed)
       IN  /\ plan' = [plan EXCEPT !.by_agent = r.counts]
           /\ astatus' = IF r.raised THEN "raised" ELSE "agents"
    /\ UNCHANGED <<aseed, aday, acfg, rngVars, weightVars, genVars, callVars, stepVars>>

\* the agent whose shifts are split next, in the order of by_agent.items()
NextAgent == Len(plan.by_shift) + 1

\* cli.py line 28: by_shift = split_by_shift(agent_name, agent_count, cfg, rng)
SplitByShift ==
    /\ astatus = "agents"
    /\ NextAgent <= Len(plan.by_agent)
    /\ LET a == plan.by_agent[NextAgent]
           r == split_by_shift(a[1], a[2], acfg.shifts[a[1]], aseed)
       IN  /\ plan' = [plan EXCEPT !.by_shift = Append(@, r.counts),
                                   !.by_bucket = Append(@, <<>>)]
           /\ astatus' = IF r.raised THEN "raised" ELSE "shifts"
    /\ UNCHANGED <<aseed, aday, acfg, rngVars, weightVars, genVars, callVars, stepVars>>

\* cli.py line 31: by_bucket = split_by_time_buckets(shift_count, day.is_weekend, cfg, rng),
\* for the next shift of the agent at hand; after the last shift the loop moves
\* on to the next agent
SplitByTimeBuckets ==
    /\ astatus = "shifts"
    /\ LET ai == Len(plan.by_shift)
           si == Len(plan.by_bucket[ai]) + 1
       IN  IF si <= Len(plan.by_shift[ai])
           THEN LET r == split_by_time_buckets(plan.by_shift[ai][si][2], aday.is_weekend,
                                               acfg.buckets, aseed)
                IN  /\ plan' = [plan EXCEPT !.by_bucket[ai] = Append(@, r.counts)]
                    /\ astatus' = IF r.raised THEN "raised" ELSE "shifts"
           ELSE /\ plan' = plan
                /\ astatus' = "agents"
    /\ UNCHANGED <<aseed, aday, acfg, rngVars, weightVars, genVars, callVars, stepVars>>

AllocNext ==
    \/ SplitByAgent
    \/ SplitByShift
    \/ SplitByTimeBuckets

SpecAlloc == AllocInit /\ [][AllocNext]_vars

RECURSIVE SumCounts(_)
SumCounts(counts) == IF counts = <<>> THEN 0 ELSE Head(counts)[2] + SumCounts(Tail(counts))

Conserved(counts, total) ==
    /\ \A i \in DOMAIN counts : counts[i][2] >= 0
    /\ SumCounts(counts) = total

\* C5 as claimed: no split raises, and every split made so far returned
\* non-negative counts adding up to its total: the agent counts to the day's
\* estimated volume, an agent's shift counts to the agent count, a shift's bucket
\* counts to the shift count.
C5_SplitsConserveTotal ==
    /\ astatus # "raised"
    /\ astatus # "start" => Conserved(plan.by_agent, aday.estimated)
    /\ \A ai \in DOMAIN plan.by_shift :
          /\ Conserved(plan.by_shift[ai], plan.by_agent[ai][2])
          /\ \A si \in DOMAIN plan.by_bucket[ai] :
                Conserved(plan.by_bucket[ai][si], plan.by_shift[ai][si][2])

\* the agent counts of a run that differs from this one in its GlobalSeed only
AgentCountsUnder(global_seed) ==
    split_by_agent(aday.estimated, aday.is_weekend, acfg.allocation, global_seed).counts

\* the shift counts of the i-th agent in such a run, for the same agent total
ShiftCountsUnder(global_seed, i) ==
    split_by_shift(plan.by_agent[i][1], plan.by_agent[i][2],
                   acfg.shifts[plan.by_agent[i][1]], global_seed).counts

\* the bucket counts of the j-th shift of the i-th agent, for the same shift total
BucketCountsUnder(global_seed, i, j) ==
    split_by_time_buckets(plan.by_shift[i][j][2], aday.is_weekend, acfg.buckets,
                          global_seed).counts

\* C28 as claimed: the counts of the cascade do not depend on GlobalSeed: a run
\* under any other seed splits the same totals into the same agent, shift and
\* bucket counts.
C28_SplitsSeedIndependent ==
    \A s \in Seeds :
        /\ astatus # "start" => AgentCountsUnder(s) = plan.by_agent
        /\ \A i \in DOMAIN plan.by_shift : ShiftCountsUnder(s, i) = plan.by_shift[i]
        /\ \A i \in DOMAIN plan.by_bucket :
              \A j \in DOMAIN plan.by_bucket[i] :
                  BucketCountsUnder(s, i, j) = plan.by_bucket[i][j]

\* C28 amended: the counts are those of the generator the run's rng derives
\* for the helper's key, whatever the constant the helper constructs its
\* DeterministicRNG with: with any other constant in place of 0 every split
\* of the cascade gives the same counts.
C28_SplitsIndependentOfHelperSeed ==
    \A c \in Seeds :
        /\ astatus # "start"
              => SplitOn(c, "split_by_agent", aday.estimated, aday.is_weekend, "",
                         acfg.allocation, aseed).counts = plan.by_agent
        /\ \A i \in DOMAIN plan.by_shift :
              SplitOn(c, "split_by_shift", plan.by_agent[i][2], FALSE, plan.by_agent[i][1],
                      acfg.shifts[plan.by_agent[i][1]], aseed).counts = plan.by_shift[i]
        /\ \A i \in DOMAIN plan.by_bucket :
              \A j \in DOMAIN plan.by_bucket[i] :
                  SplitOn(c, "split_by_time_buckets", plan.by_shift[i][j][2], aday.is_weekend,
                          "", acfg.buckets, aseed).counts = plan.by_bucket[i][j]

\* all three levels split, with agent counts another GlobalSeed would not give
C28_Witness ==
    /\ astatus = "shifts"
    /\ \E i \in DOMAIN plan.by_bucket : plan.by_bucket[i] # <<>>
    /\ \E s \in Seeds : AgentCountsUnder(s) # plan.by_agent

\* C23 as claimed: the keys of the splits made for two different branches of
\* the cascade are never equal: the shift splits of two agents, and the bucket
\* splits of two shifts (of one agent or of two).
C23_SplitKeysDistinct ==
    /\ \A ai, aj \in DOMAIN plan.by_shift :
          ai # aj
          => SplitKey("split_by_shift", aday.is_weekend, plan.by_agent[ai][1], plan.by_agent[ai][2])
                 # SplitKey("split_by_shift", aday.is_weekend, plan.by_agent[aj][1], plan.by_agent[aj][2])
    /\ \A ai, aj \in DOMAIN plan.by_bucket :
          \A si \in DOMAIN plan.by_bucket[ai], sj \in DOMAIN plan.by_bucket[aj] :
              <<ai, si>> # <<aj, sj>>
              => SplitKey("split_by_time_buckets", aday.is_weekend,
                          plan.by_agent[ai][1], plan.by_shift[ai][si][2])
                     # SplitKey("split_by_time_buckets", aday.is_weekend,
                                plan.by_agent[aj][1], plan.by_shift[aj][sj][2])

(***************************************************************************)
(* The random stream manager as a state machine                            *)
(***************************************************************************)
MgrStates == {[global_seed |-> s, root_pos |-> p] : s \in Seeds, p \in 0..MaxRootDraws}

\* seed_for tabulated over the manager states and keys of the model
SeedForTable == [m \in MgrStates, key \in Keys |-> SeedFor(m, key)]

RngInit ==
    /\ mgr \in {[global_seed |-> s, root_pos |-> 0] : s \in Seeds}
    /\ gens = <<>>
    /\ WeightsIdle
    /\ AllocIdle
    /\ GenIdle
    /\ CallIdle
    /\ StepIdle

\* a call of seed_for(key); the first generator handed out is kept, the latest
\* call replaces the second slot
CallSeedFor(key) ==
    LET r == SeedForTable[mgr, key]
        e == [gen |-> r.gen, before |-> mgr, after |-> r.mgr,
              draws |-> <<RngUniform(r.gen.seed_int, 0, 8), RngUniform(r.gen.seed_int, 1, 8)>>]
    IN  /\ gens' = IF gens = <<>> THEN <<e>> ELSE <<gens[1], e>>
        /\ mgr' = r.mgr
        /\ UNCHANGED <<weightVars, allocVars, genVars, callVars, stepVars>>

\* a draw from the root generator (rng=None in choice_weighted, multinomial_split,
\* uuid4_deterministic)
DrawRoot ==
    /\ mgr.root_pos < MaxRootDraws
    /\ mgr' = [mgr EXCEPT !.root_pos = @ + 1]
    /\ UNCHANGED <<gens, weightVars, allocVars, genVars, callVars, stepVars>>

RngNext ==
    \/ \E key \in Keys : CallSeedFor(key)
    \/ DrawRoot

SpecRng == RngInit /\ [][RngNext]_vars

\* C3: seed_for is a pure function of (GlobalSeed, key): every call leaves the
\* manager as it found it, and two calls with the same key return generators with
\* the same derived seed and the same first draws, whatever was drawn from the
\* root generator or derived in between.
C3_SeedForPure ==
    /\ \A i \in DOMAIN gens : gens[i].after = gens[i].before
    /\ \A i, j \in DOMAIN gens :
          gens[i].gen.key = gens[j].gen.key
          => /\ gens[i].gen.seed_int = gens[j].gen.seed_int
             /\ gens[i].draws = gens[j].draws

\* the same key derived twice, the root generator drawn from in between
C3_Witness ==
    /\ Len(gens) = 2
    /\ gens[1].gen.key = gens[2].gen.key
    /\ gens[1].gen.key[1] = "tuple"
    /\ gens[1].before.root_pos < gens[2].before.root_pos

Raise == "!raise"       \* the value of a sampler that raised
None == "<None>"        \* Python's None, JSON null

GenSeed(global_seed, key) ==
    SeedFor([global_seed |-> global_seed, root_pos |-> 0], key).gen.seed_int

\* Generator.choice(n, p): the first index whose cumulated weight exceeds u/8
Choice(ws, u) ==
    LET n == Len(ws)
        t == SumOver(ws, 1..n)
    IN  CHOOSE i \in 1..n :
            /\ u * t < 8 * SumOver(ws, 1..i)
            /\ \A j \in 1..(i - 1) : ~(u * t < 8 * SumOver(ws, 1..j))

\* _sample_from_weights
SampleFromWeights(global_seed, mapping, key) ==
    LET n == Len(mapping)
        probs == [i \in 1..n |-> Max(0, mapping[i][2])]
        t == SumOver(probs, 1..n)
        eff == IF t <= 0 THEN [i \in 1..n |-> 1] ELSE probs
    IN  IF n = 0 THEN Raise
        ELSE mapping[Choice(eff, RngUniform(GenSeed(global_seed, key), 0, 8))][1]

\* the namespace of a weight family whose only table is the base table
TableFn(seq) == [k \in {seq[i][1] : i \in DOMAIN seq} |->
                    (CHOOSE p \in Range(seq) : p[1] = k)[2]]
BaseOnly(seq) == IF seq = <<>> THEN EmptyTable ELSE [p \in {"base"} |-> TableFn(seq)]

\* the items of a resolved table, in the order of the base table
Ordered(seq, norm) == [i \in DOMAIN seq |-> <<seq[i][1], norm[seq[i][1]][1]>>]

RemoveAt(seq, i) == SubSeq(seq, 1, i - 1) \o SubSeq(seq, i + 1, Len(seq))
IndexOf(seq, label) == CHOOSE i \in DOMAIN seq : seq[i][1] = label

NormalZ == <<0 - 2, 0 - 1, 0 - 1, 0, 0, 1, 1, 2>>
\* Generator.normal(mean, sigma) at level u
Normal(mean, sigma, u) == mean + sigma * NormalZ[u + 1]
\* _trunc_normal
TruncNormal(mean, sigma, u) == Max(0, Normal(mean, sigma, u))
\* Generator.random() < p with p in percent
Below(u, percent) == u * 100 < 8 * percent
\* a plausible slip: the bound above forgotten
ClampBelowOnly(lo, hi, x) == Max(lo, x)

\* max(lo, min(hi, x))
Clamp(lo, hi, x) == Max(lo, Min(hi, x))

\* the n-th draw of the call's own generator
CallDraw(ctx, n, res) == RngUniform(ctx.call_seed, n, res)

\* the key each sampler derives its generator from (features.py lines 61, 67,
\* 72, 78, 79, 90, 99, 109, 198, 199, 209, 218 and 264); x is the value the key
\* takes from the sampler's locals, if any
FieldKey(field, ctx, x) ==
    CASE field = "segment" -> Key(<<KStr(field), KStr(ctx.date), KStr(ctx.agent_name)>>)
      [] field = "channel" ->
            Key(<<KStr(field), KStr(ctx.time_of_day_bucket), KStr(ctx.agent_name)>>)
      [] field = "region" -> Key(<<KStr(field), KStr(ctx.date)>>)
      [] field = "language" -> Key(<<KStr(field), KStr(ctx.date)>>)
      [] field = "device" -> Key(<<KStr(field), KStr(ctx.channel)>>)
      [] field = "intent_count" ->
            Key(<<KStr(field), KStr(ctx.date), KStr(ctx.agent_name),
                  KStr(ctx.time_of_day_bucket)>>)
      [] field = "intent" ->
            Key(<<KStr(field), KStr(ctx.time_of_day_bucket), KStr(ctx.agent_name), KInt(x)>>)
      [] field = "scenario" -> Key(<<KStr(field), KStr(x), KStr(ctx.agent_name)>>)
      [] field = "product" -> Key(<<KStr(field), KStr(ctx.time_of_day_bucket)>>)
      [] field = "amount" -> Key(<<KStr(field), KStr(x)>>)
      [] field = "ssp" -> Key(<<KStr(field), KStr(x)>>)
      [] field = "action" -> Key(<<KStr(field), KStr(x)>>)
      [] field = "ani" -> Key(<<KStr(field), KStr(x[1]), KStr(x[2]), <<"str", x[3]>> >>)

sample_customer_segment(ctx, cfg, global_seed) ==
    SampleFromWeights(global_seed, cfg.segments, FieldKey("segment", ctx, None))

sample_channel(ctx, cfg, global_seed) ==
    SampleFromWeights(global_seed,
        Ordered(cfg.channels, channel_weights(BaseOnly(cfg.channels))),
        FieldKey("channel", ctx, None))

\* lang_base[k] = max(0, lang_base.get(k, 0) + v) for the Premium bias
BiasedLanguages(lang_base, bias) ==
    LET old == [i \in DOMAIN lang_base |->
                   <<lang_base[i][1],
                     IF \E j \in DOMAIN bias : bias[j][1] = lang_base[i][1]
                     THEN Max(0, lang_base[i][2] + bias[IndexOf(bias, lang_base[i][1])][2])
                     ELSE lang_base[i][2]>>]
        new == SelectSeq(bias, LAMBDA b : ~\E i \in DOMAIN lang_base : lang_base[i][1] = b[1])
    IN  old \o [i \in DOMAIN new |-> <<new[i][1], Max(0, new[i][2])>>]

sample_geo_language_device(ctx, cfg, global_seed, segment) ==
    [region |-> SampleFromWeights(global_seed, cfg.geo_region,
                    FieldKey("region", ctx, None)),
     language |-> SampleFromWeights(global_seed,
                    IF segment = "Premium"
                    THEN BiasedLanguages(cfg.geo_language, cfg.premium_language_bias)
                    ELSE cfg.geo_language,
                    FieldKey("language", ctx, None)),
     device_type |-> SampleFromWeights(global_seed,
                    Ordered(cfg.devices, device_weights(BaseOnly(cfg.devices))),
                    FieldKey("device", ctx, None))]

RECURSIVE PickIntentsKeepingLabels(_, _, _, _, _)
\* a plausible slip: the label picked stays in the table
PickIntentsKeepingLabels(ctx, global_seed, local_w, count, chosen) ==
    IF count = 0 \/ local_w = <<>> THEN chosen
    ELSE LET pick == SampleFromWeights(global_seed, local_w,
                        FieldKey("intent", ctx, Len(chosen)))
         IN  PickIntentsKeepingLabels(ctx, global_seed, local_w, count - 1,
                                      Append(chosen, pick))

RECURSIVE PickIntents(_, _, _, _, _)
\* the loop of sample_intent: picks without replacement
PickIntents(ctx, global_seed, local_w, count, chosen) ==
    IF count = 0 \/ local_w = <<>> THEN chosen
    ELSE LET pick == SampleFromWeights(global_seed, local_w,
                        FieldKey("intent", ctx, Len(chosen)))
         IN  PickIntents(ctx, global_seed, RemoveAt(local_w, IndexOf(local_w, pick)),
                         count - 1, Append(chosen, pick))

\* the levels of the uniform draw that decides the count: u stands for u/20
CountLevels == 20

\* features.py line 92: count = 1 if p < 0.70 else (2 if p < 0.90 else 3)
IntentCount(u) ==
    IF u * 100 < CountLevels * 70 THEN 1 ELSE IF u * 100 < CountLevels * 90 THEN 2 ELSE 3

\* sample_intent: the labels chosen, in order; the empty list stands for the
\* "Online-Banking" returned on an empty table
ChosenIntents(ctx, cfg, global_seed) ==
    LET w == Ordered(cfg.intents,
                     intent_weights(BaseOnly(cfg.intents), ctx.outage_flag, ctx.app_issue_flag))
        p == RngUniform(GenSeed(global_seed, FieldKey("intent_count", ctx, None)),
                        0, CountLevels)
    IN  IF w = <<>> THEN <<>>
        ELSE PickIntents(ctx, global_seed, w, IntentCount(p), <<>>)

\* sample_intent, followed by the primary intent taken at cli.py line 84
sample_intent(ctx, cfg, global_seed) ==
    LET chosen == ChosenIntents(ctx, cfg, global_seed)
    IN  IF chosen = <<>> THEN "Online-Banking" ELSE chosen[1]

sample_scenario(ctx, intent, cfg, global_seed) ==
    SampleFromWeights(global_seed,
        Ordered(cfg.scenarios, scenario_weights(BaseOnly(cfg.scenarios), ctx.outage_flag)),
        FieldKey("scenario", ctx, intent))

\* cfg.get(path, {}).get(k, 0) on a table of deltas
DeltaOf(table, k) ==
    IF \E i \in DOMAIN table : table[i][1] = k THEN table[IndexOf(table, k)][2] ELSE 0

\* sample_ops_metrics: draws 1..6 of the call's generator (draw 0 is the call_id).
\* Seconds and percentages are integers, Interruptions_count is drawn in tenths.
sample_ops_metrics(ctx, cfg) ==
    LET awt0 == TruncNormal(cfg.ops.awt_median, cfg.ops.awt_sigma, CallDraw(ctx, 1, 8))
        awt1 == IF ctx.outage_flag THEN awt0 + cfg.ops.awt_outage_delta ELSE awt0
        awt2 == awt1 + DeltaOf(cfg.ops.awt_channel_deltas, ctx.channel)
        awt3 == awt2 + DeltaOf(cfg.ops.awt_team_deltas, ctx.team)
        awt == IF ctx.premium_wait_peak THEN awt3 + cfg.ops.awt_premium_wait_peak_delta ELSE awt3
        hold == TruncNormal(cfg.ops.hold_median, cfg.ops.hold_sigma, CallDraw(ctx, 2, 8))
                    + DeltaOf(cfg.ops.hold_channel_deltas, ctx.channel)
        trans == cfg.ops.transfers_probs
        tvals == [i \in DOMAIN trans |-> Max(0, trans[i][2])]
        tsum == SumOver(tvals, DOMAIN trans)
        transfers == trans[Choice(IF tsum > 0 THEN tvals ELSE [i \in DOMAIN trans |-> 1],
                                  CallDraw(ctx, 3, 8))][1]
        sil == TruncNormal(cfg.ops.silence_mean + DeltaOf(cfg.ops.silence_channel_deltas, ctx.channel),
                           cfg.ops.silence_sigma, CallDraw(ctx, 4, 8))
        intr == TruncNormal(cfg.ops.interruptions_mean10
                                + DeltaOf(cfg.ops.interruptions_channel_deltas10, ctx.channel),
                            cfg.ops.interruptions_sigma10, CallDraw(ctx, 5, 8))
        fcr0 == cfg.ops.fcr_base_prob
        fcr1 == IF ctx.outage_flag THEN fcr0 + cfg.ops.fcr_penalty_outage ELSE fcr0
        fcr2 == fcr1 + DeltaOf(cfg.ops.fcr_penalty_channel, ctx.channel)
                     + DeltaOf(cfg.ops.fcr_penalty_team, ctx.team)
    IN  [AWT |-> awt,
         Hold_time |-> hold,
         Transfers_count |-> transfers,
         Silence_ratio |-> sil,
         Interruptions_count |-> RoundHalfEven(intr, 10),
         FCR |-> Below(CallDraw(ctx, 6, 8), Clamp(0, 100, fcr2))]

\* whether sample_resolution takes the draw for Backoffice / Supervisor
EscalationDrawn(intent, fcr) ==
    ~(~fcr /\ intent \in {"Online-Banking", "Technical Support"}) /\ ~fcr

\* a plausible slip: the intent test without "not fcr"
ResolutionIgnoringFcr(ctx, intent, fcr) ==
    [repeat_call_within_72h |-> Below(CallDraw(ctx, 7, 8), IF ~fcr THEN 35 ELSE 10),
     escalation |-> IF intent \in {"Online-Banking", "Technical Support"}
                    THEN "IT Ticket"
                    ELSE IF fcr THEN "None"
                    ELSE IF Below(CallDraw(ctx, 8, 8), 20) THEN "Backoffice" ELSE "Supervisor",
     complaint_category |-> IF ctx.premium_wait_peak /\ ctx.channel = "voice" THEN "WaitTime"
                            ELSE IF ~fcr THEN "TechnicalIssue" ELSE "Fees"]

\* sample_resolution: draw 7, and draw 8 for the escalation when it is drawn
sample_resolution(ctx, intent, fcr) ==
    [repeat_call_within_72h |-> Below(CallDraw(ctx, 7, 8), IF ~fcr THEN 35 ELSE 10),
     escalation |-> IF ~fcr /\ intent \in {"Online-Banking", "Technical Support"}
                    THEN "IT Ticket"
                    ELSE IF fcr THEN "None"
                    ELSE IF Below(CallDraw(ctx, 8, 8), 20) THEN "Backoffice" ELSE "Supervisor",
     complaint_category |-> IF ctx.premium_wait_peak /\ ctx.channel = "voice" THEN "WaitTime"
                            ELSE IF ~fcr THEN "TechnicalIssue" ELSE "Fees"]

\* sample_nps: draws p and p + 1; sentiment_score in thousandths
sample_nps(ctx, fcr, awt, cfg, p) ==
    LET base == cfg.nps.base_weights
        vals == [i \in DOMAIN base |-> Max(0, base[i][2])]
        vsum == SumOver(vals, DOMAIN base)
        score0 == base[Choice(IF vsum > 0 THEN vals ELSE [i \in DOMAIN base |-> 1],
                              CallDraw(ctx, p, 8))][1]
        corr == (IF awt > 120 THEN cfg.nps.awt_gt_120 ELSE 0)
                    + (IF ~fcr THEN cfg.nps.fcr_zero ELSE 0)
                    + (IF ctx.premium_wait_peak THEN cfg.nps.premium_waittime ELSE 0)
        score == Max(0, Min(cfg.nps.happy_cap, score0 + corr))
    IN  [NPS_score |-> score,
         sentiment_score |-> Clamp(0 - 1000, 1000,
                                   (score - 5) * 200 + Normal(0, 100, CallDraw(ctx, p + 1, 8)))]

\* sample_silence_total_seconds: draw p; the penalty per point in halves of a second
sample_silence_total_seconds(ctx, scenario, nps_score, cfg, p) ==
    LET c == cfg.silence_total
        nps_penalty2 == Max(0, c.low_threshold - nps_score) * c.per_point_below2
        mean2 == 2 * (c.base_mean + DeltaOf(c.agent_deltas, ctx.agent_name)
                        + DeltaOf(c.team_deltas, ctx.team)
                        + DeltaOf(c.channel_lifts, ctx.channel)
                        + DeltaOf(c.scenario_lifts, scenario)) + nps_penalty2
    IN  TruncNormal(mean2, 2 * c.base_sigma, CallDraw(ctx, p, 8)) \div 2

sample_products(ctx, cfg, global_seed) ==
    LET prod == SampleFromWeights(global_seed,
                    Ordered(cfg.products,
                            product_weights(BaseOnly(cfg.products), ctx.outage_flag, ctx.hour_lt_18)),
                    FieldKey("product", ctx, None))
    IN  [product |-> prod,
         amount_bucket |->
            IF prod = Raise THEN Raise
            ELSE IF prod \in {"Transfer", "Loan", "Hypothek"}
            THEN SampleFromWeights(global_seed, cfg.amount_buckets,
                                   FieldKey("amount", ctx, prod))
            ELSE None]

\* sample_automation: draw p decides whether an action is present
sample_automation(ctx, intent_str, cfg, global_seed, p) ==
    LET ssp == SampleFromWeights(global_seed, cfg.automation.self_service_potential,
                                 FieldKey("ssp", ctx, intent_str))
        p0 == cfg.automation.action_present_base
        p1 == IF intent_str \in {"Online-Banking", "Transfer"}
              THEN p0 + DeltaOf(cfg.automation.intent_lifts, intent_str) ELSE p0
        p2 == IF ctx.outage_flag THEN p1 + cfg.automation.outage_penalty ELSE p1
        p3 == IF ctx.channel = "Text" THEN p2 + 0 ELSE p2
        present == Below(CallDraw(ctx, p, 8), Clamp(0, 100, p3))
    IN  [self_service_potential |-> ssp,
         automation_action_present |-> present,
         automation_action_type |->
            IF ssp = Raise THEN Raise
            ELSE IF present
            THEN SampleFromWeights(global_seed, cfg.automation.action_type,
                                   FieldKey("action", ctx, intent_str))
            ELSE None]

\* the pass rates of sample_compliance after the deltas, in per mille
PassRates(ctx, cfg) ==
    LET c == cfg.compliance
        d == c.global_delta + DeltaOf(c.channel_deltas, ctx.channel) + DeltaOf(c.team_deltas, ctx.team)
        p1 == [i \in DOMAIN c.pass_rates |->
                  <<c.pass_rates[i][1], Clamp(0, 999, c.pass_rates[i][2] + d)>>]
        has == \E i \in DOMAIN p1 : p1[i][1] = "Empathy"
        emp == Max(0, (IF has THEN p1[IndexOf(p1, "Empathy")][2] ELSE 900)
                        + c.outage_empathy_penalty)
        p2 == IF ~ctx.outage_flag THEN p1
              ELSE IF has THEN [p1 EXCEPT ![IndexOf(p1, "Empathy")] = <<"Empathy", emp>>]
              ELSE Append(p1, <<"Empathy", emp>>)
    IN  IF ctx.agent_name = "Monika_Mueller"
        THEN [i \in DOMAIN p2 |-> <<p2[i][1], Min(999, p2[i][2] + c.monika_pass_bonus)>>]
        ELSE p2

\* the probability a flag's draw is compared with (features.py line 235), in per mille
DrawProbability(v) == Clamp(0, 1000, v)

\* the record of sample_compliance under the pass rates resolved for the call
ComplianceFields(ctx, cfg, p, passes) ==
    [compliance_flags |->
        [k \in {passes[i][1] : i \in DOMAIN passes} |->
            IF CallDraw(ctx, p + IndexOf(passes, k) - 1, 8) * 1000
                   < 8 * DrawProbability(passes[IndexOf(passes, k)][2])
            THEN "pass" ELSE "fail"],
     kb_article_used |-> Below(CallDraw(ctx, p + Len(passes) + 1, 8), 50),
     language_switch |-> Below(CallDraw(ctx, p + Len(passes) + 2, 8), 5),
     pii_disclosure_flag |-> Below(CallDraw(ctx, p + Len(passes) + 3, 8), 2),
     script_adherence |-> Clamp(0, 100, Normal(cfg.compliance.script_adherence_mean,
                                               cfg.compliance.script_adherence_sigma,
                                               CallDraw(ctx, p + Len(passes), 8)))]

\* sample_compliance: one draw per flag from draw p on, then the script
\* adherence and the three boolean flags
sample_compliance(ctx, cfg, p) == ComplianceFields(ctx, cfg, p, PassRates(ctx, cfg))

\* generate_german_ani: "+49" and 9..12 digits, as code points
generate_german_ani(global_seed, cust_key) ==
    LET seed_int == GenSeed(global_seed, FieldKey("ani", None, cust_key))
        length == 9 + RngUniform(seed_int, 0, 4)
    IN  <<43, 52, 57>> \o [j \in 1..length |-> 48 + RngUniform(seed_int, j, 10)]

\* scenario.split(" ")[0], on the code points of the scenario
FirstWord(codes) ==
    IF \E i \in DOMAIN codes : codes[i] = 32
    THEN SubSeq(codes, 1, (CHOOSE i \in DOMAIN codes :
                              codes[i] = 32 /\ \A j \in 1..(i - 1) : codes[j] # 32) - 1)
    ELSE codes

(***************************************************************************)
(* The record schema (src/generator/schema.py)                             *)
(***************************************************************************)
Required ==
    {"call_id", "date", "weekday", "time_of_day_bucket", "agent_name", "team", "agent_shift",
     "customer_segment", "channel", "language", "region", "device_type",
     "intent", "scenario",
     "AWT", "Hold_time", "Transfers_count", "Silence_ratio", "Interruptions_count",
     "FCR", "repeat_call_within_72h", "escalation", "complaint_category",
     "NPS_score", "sentiment_score",
     "self_service_potential", "automation_action_present",
     "compliance_flags", "script_adherence",
     "Silence_total_seconds"}

IsLetter(c) == c \in 65..90 \/ c \in 97..122
IsDigit(c) == c \in 48..57

\* ^[A-Za-z]{2}(-[A-Za-z]{2})?$
LanguagePattern(c) ==
    \/ Len(c) = 2 /\ IsLetter(c[1]) /\ IsLetter(c[2])
    \/ Len(c) = 5 /\ IsLetter(c[1]) /\ IsLetter(c[2]) /\ c[3] = 45
                  /\ IsLetter(c[4]) /\ IsLetter(c[5])

\* ^\+49\d{9,12}$
AniPattern(c) ==
    /\ Len(c) \in 12..15
    /\ SubSeq(c, 1, 3) = <<43, 52, 57>>
    /\ \A i \in 4..Len(c) : IsDigit(c[i])

ComplianceFlagsOK(v) ==
    /\ {"Greeting", "Empathy", "Summary", "Farewell"} \subseteq DOMAIN v
    /\ \A k \in {"Greeting", "Empathy", "Summary", "Farewell"} : v[k] \in {"pass", "fail"}

\* the constraint of CALL_SCHEMA["properties"][f] on the value v
\* (the en dashes of the amount_bucket labels are written as hyphens)
PropertyOK(f, v) ==
    CASE f = "weekday" -> v \in {"Mon", "Tue", "Wed", "Thu", "Fri", "Sat", "Sun"}
      [] f = "time_of_day_bucket" -> v \in {"Night", "Morning", "Afternoon", "Evening"}
      [] f = "agent_name" -> v \in {"Monika_Mueller", "Lukas_Schmidt", "Anna_Ziegler",
                                    "Peter_Keller", "Jasmin_Caggiano", "Heidi_Vogt",
                                    "Marco_Fischer", "Laura_Brunner", "Karin_Herzog",
                                    "Sven_Meier", "Nina_Weber", "Paul_Huber"}
      [] f = "team" -> v \in {"Team A", "Team B", "Team C"}
      [] f = "agent_shift" -> v \in {"Early", "Mid", "Late"}
      [] f = "customer_segment" -> v \in {"Premium", "Standard"}
      [] f = "channel" -> v \in {"voice", "text"}
      [] f = "language" -> LanguagePattern(Utf8(v))
      [] f = "region" -> v \in {"ZH", "BE", "GE", "VD", "TI"}
      [] f = "device_type" -> v \in {"iOS", "Android", "Desktop"}
      [] f = "AWT" -> v >= 0
      [] f = "Hold_time" -> v >= 0
      [] f = "Transfers_count" -> v >= 0 /\ v <= 3
      [] f = "Silence_ratio" -> v >= 0 /\ v <= 100
      [] f = "Silence_total_seconds" -> v >= 0
      [] f = "Interruptions_count" -> v >= 0
      [] f = "escalation" -> v \in {"None", "Supervisor", "Backoffice", "IT Ticket"}
      [] f = "complaint_category" -> v \in {"WaitTime", "Rude", "WrongInfo", "TechnicalIssue", "Fees"}
      [] f = "NPS_score" -> v >= 0 /\ v <= 10
      [] f = "sentiment_score" -> v >= 0 - 1000 /\ v <= 1000
      [] f = "amount_bucket" -> v \in {"<100", "100-1000", "1000-5000", ">5000", None}
      [] f = "self_service_potential" -> v \in {"Low", "Medium", "High"}
      [] f = "automation_action_type" ->
            v \in {"reset password", "check balance", "transfer status", None}
      [] f = "ANI" -> AniPattern(v)
      [] f = "compliance_flags" -> ComplianceFlagsOK(v)
      [] f = "script_adherence" -> v >= 0 /\ v <= 100
      [] OTHER -> TRUE

\* jsonschema.validate(call, schema) for a schema with the given required list
SatisfiesSchema(call, required) ==
    /\ required \subseteq DOMAIN call
    /\ \A f \in DOMAIN call : PropertyOK(f, call[f])

\* validate_against_schema does not raise
validate_against_schema(call) == SatisfiesSchema(call, Required)

(***************************************************************************)
(* The calendar and the daily volume (calendar.py, volume.py)              *)
(***************************************************************************)
WEEKDAYS == <<"Mon", "Tue", "Wed", "Thu", "Fri", "Sat", "Sun">>

\* date.isoformat() of the n-th day of January 2024
IsoDate(n) ==
    CASE n = 1 -> "2024-01-01" [] n = 2 -> "2024-01-02" [] n = 3 -> "2024-01-03"
      [] n = 4 -> "2024-01-04" [] n = 5 -> "2024-01-05" [] n = 6 -> "2024-01-06"
      [] n = 7 -> "2024-01-07" [] n = 8 -> "2024-01-08" [] n = 9 -> "2024-01-09"
      [] n = 10 -> "2024-01-10" [] n = 11 -> "2024-01-11" [] n = 12 -> "2024-01-12"
      [] n = 13 -> "2024-01-13" [] n = 14 -> "2024-01-14" [] n = 15 -> "2024-01-15"
      [] n = 16 -> "2024-01-16" [] n = 17 -> "2024-01-17" [] n = 18 -> "2024-01-18"
      [] n = 19 -> "2024-01-19"

\* date.weekday() of the n-th day of January 2024 (the 1st is a Monday)
WeekdayIndex(n) == (n - 1) % 7

\* daterange: the days start..end of January 2024, in order (none if start > end)
daterange(start, end) == [i \in 1..(end - start + 1) |-> start + i - 1]

\* the --start and --end arguments of the runs: 2024-01-05 .. 2024-01-06
DateRange == [start |-> 5, end |-> 6]

\* a plausible slip: Generator.choice with replace=True
ChooseWithReplacement(items, size, seed_int, n) ==
    {items[1 + RngUniform(seed_int, n + j, Len(items))] : j \in 0..(size - 1)}

RECURSIVE ChooseWithoutReplacement(_, _, _, _)
\* Generator.choice(n, size, replace=False): size distinct indices of items
ChooseWithoutReplacement(items, size, seed_int, n) ==
    IF size = 0 THEN {}
    ELSE LET i == 1 + RngUniform(seed_int, n, Len(items))
         IN  {items[i]} \cup ChooseWithoutReplacement(RemoveAt(items, i), size - 1, seed_int, n + 1)

\* select_outage_days: the outage days, as days of January 2024
select_outage_days(start, end, outages, global_seed) ==
    LET weekdays == SelectSeq(daterange(start, end), LAMBDA d : WeekdayIndex(d) < 5)
        seed_int == GenSeed(global_seed,
                        Key(<<KStr("outages"), KStr(IsoDate(start)), KStr(IsoDate(end))>>))
    IN  IF outages <= 0 \/ weekdays = <<>> THEN {}
        ELSE ChooseWithoutReplacement(weekdays, Min(outages, Len(weekdays)), seed_int, 0)

\* a plausible slip: the window of an outage starting on the outage day itself
AppIssueDaysFromOutage(outage_days, app_after_days, end_date) ==
    {nd \in {d + k : d \in outage_days, k \in 0..app_after_days} : nd <= end_date}

\* calendar.py lines 49-54
AppIssueDays(outage_days, app_after_days, end_date) ==
    {nd \in {d + k : d \in outage_days, k \in 1..app_after_days} : nd <= end_date}

\* calendar.py lines 57-73: the DayPlan of day d
DayPlan(d, cfg, outage_days, app_issue_days) ==
    [date |-> IsoDate(d),
     weekday |-> WEEKDAYS[WeekdayIndex(d) + 1],
     is_weekend |-> WeekdayIndex(d) >= 5,
     weekday_factor10 |-> IF \E j \in DOMAIN cfg.calendar.weekday_factors10 :
                                cfg.calendar.weekday_factors10[j][1] = WEEKDAYS[WeekdayIndex(d) + 1]
                          THEN DeltaOf(cfg.calendar.weekday_factors10, WEEKDAYS[WeekdayIndex(d) + 1])
                          ELSE 10,
     outage_flag |-> d \in outage_days,
     app_issue_flag |-> d \in app_issue_days,
     premium_wait_peak |-> WEEKDAYS[WeekdayIndex(d) + 1] \in cfg.calendar.premium_wait_peak_days]

\* calendar.py lines 48-74, on the outage days selected
CalendarOf(start_date, end_date, cfg, outage_days) ==
    [i \in DOMAIN daterange(start_date, end_date) |->
        DayPlan(daterange(start_date, end_date)[i], cfg, outage_days,
                AppIssueDays(outage_days, cfg.calendar.app_issue_after_outage_days, end_date))]

\* make_calendar: one DayPlan per day of the range
make_calendar(start_date, end_date, cfg, global_seed) ==
    CalendarOf(start_date, end_date, cfg,
               select_outage_days(start_date, end_date, cfg.calendar.outages_count, global_seed))

\* a plausible slip: the boost drawn for every day, incident or not
IncidentBoostAlways(day, cfg, global_seed) ==
    LET lo == cfg.volume.incident_boost_min
        hi == cfg.volume.incident_boost_max
        u == RngUniform(GenSeed(global_seed, Key(<<KStr("incident_boost"), KStr(day.date)>>)), 0, 8)
    IN  lo + ((hi - lo) * u) \div 8

\* _incident_boost, in percent
IncidentBoost(day, cfg, global_seed) ==
    IF ~(day.outage_flag \/ day.app_issue_flag) THEN 0
    ELSE LET lo == cfg.volume.incident_boost_min
             hi == cfg.volume.incident_boost_max
             u == RngUniform(GenSeed(global_seed, Key(<<KStr("incident_boost"), KStr(day.date)>>)), 0, 8)
         IN  lo + ((hi - lo) * u) \div 8

\* estimate_daily_volume(...).estimated: factor and reduction in tenths
estimate_daily_volume(day, cfg, global_seed) ==
    LET base == IF day.is_weekend THEN cfg.volume.base_weekend ELSE cfg.volume.base_weekday
        boost == IncidentBoost(day, cfg, global_seed)
    IN  Max(0, RoundHalfEven(base * day.weekday_factor10 * (100 + boost)
                                 * cfg.volume.reduction10, 10000))

(***************************************************************************)
(* The iterations of generate_dataset (cli.py lines 23-33): the calls in    *)
(* loop order, cut short by the first split that raises                    *)
(***************************************************************************)
RaiseEvent == [kind |-> "raise"]
Raised(events) == events # <<>> /\ events[Len(events)].kind = "raise"

RECURSIVE ConcatUntilRaise(_, _)
\* the events of items i.., in order, up to and including the first raise
ConcatUntilRaise(evs, i) ==
    IF i > Len(evs) THEN <<>>
    ELSE IF Raised(evs[i]) THEN evs[i]
    ELSE evs[i] \o ConcatUntilRaise(evs, i + 1)

BucketEvents(day, agent, team, shift, bucket, n_calls) ==
    [i \in 1..n_calls |->
        [kind |-> "call", date |-> day.date, weekday |-> day.weekday,
         outage_flag |-> day.outage_flag, app_issue_flag |-> day.app_issue_flag,
         premium_wait_peak |-> day.premium_wait_peak,
         agent_name |-> agent, team |-> team, agent_shift |-> shift,
         time_of_day_bucket |-> bucket, i |-> i - 1]]

ShiftEvents(day, agent, team, shift, shift_count, cfg, global_seed) ==
    LET by_bucket == split_by_time_buckets(shift_count, day.is_weekend,
                        IF day.is_weekend THEN cfg.buckets.weekend ELSE cfg.buckets.weekday,
                        global_seed)
        Ev(b) == BucketEvents(day, agent, team, shift, by_bucket.counts[b][1], by_bucket.counts[b][2])
    IN  IF by_bucket.raised THEN <<RaiseEvent>>
        ELSE ConcatUntilRaise([b \in 1..Len(by_bucket.counts) |-> Ev(b)], 1)

AgentEvents(day, agent, agent_count, cfg, global_seed) ==
    LET by_shift == split_by_shift(agent, agent_count,
                        IF agent \in DOMAIN cfg.shifts THEN cfg.shifts[agent] ELSE <<>>,
                        global_seed)
        team == IF agent \in DOMAIN cfg.teams THEN cfg.teams[agent] ELSE "Team A"
        Ev(s) == ShiftEvents(day, agent, team, by_shift.counts[s][1], by_shift.counts[s][2],
                             cfg, global_seed)
    IN  IF by_shift.raised THEN <<RaiseEvent>>
        ELSE ConcatUntilRaise([s \in 1..Len(by_shift.counts) |-> Ev(s)], 1)

DayEvents(day, cfg, global_seed) ==
    LET by_agent == split_by_agent(estimate_daily_volume(day, cfg, global_seed), day.is_weekend,
                        IF day.is_weekend THEN cfg.allocation.weekend ELSE cfg.allocation.weekday,
                        global_seed)
        Ev(a) == AgentEvents(day, by_agent.counts[a][1], by_agent.counts[a][2], cfg, global_seed)
    IN  IF by_agent.raised THEN <<RaiseEvent>>
        ELSE ConcatUntilRaise([a \in 1..Len(by_agent.counts) |-> Ev(a)], 1)

Iterations(cfg, global_seed) ==
    LET days == make_calendar(DateRange.start, DateRange.end, cfg, global_seed)
        Ev(d) == DayEvents(days[d], cfg, global_seed)
    IN  ConcatUntilRaise([d \in 1..Len(days) |-> Ev(d)], 1)

(***************************************************************************)
(* Record assembly (cli.py lines 34-136) and persistence (io.py)           *)
(***************************************************************************)
\* the j-th byte of Generator.bytes(16) on a fresh generator
RngBytes(seed_int, j) == (seed_int * 7 + j * 29 + (seed_int \div 256) + 11) % 256

\* a plausible slip: the version and variant bits set with | alone, the bits
\* around them left as drawn
VersionVariantOr(b) ==
    [j \in 1..16 |-> IF j = 7 THEN b[j] + (IF (b[j] \div 64) % 2 = 1 THEN 0 ELSE 64)
                     ELSE IF j = 9 THEN b[j] + (IF b[j] >= 128 THEN 0 ELSE 128)
                     ELSE b[j]]

\* rng.py lines 52-53: b[6] = (b[6] & 0x0F) | 0x40 and b[8] = (b[8] & 0x3F) | 0x80;
\* b[6] and b[8] of the code are bytes 7 and 9 here
VersionVariant(b) ==
    [j \in 1..16 |-> IF j = 7 THEN (b[j] % 16) + 64
                     ELSE IF j = 9 THEN (b[j] % 64) + 128
                     ELSE b[j]]

\* a lowercase hexadecimal digit, as a code point
HexDigit(n) == IF n < 10 THEN 48 + n ELSE 87 + n

\* str(uuid.UUID(bytes=b)): 32 hexadecimal digits in groups of 8, 4, 4, 4 and
\* 12 with a hyphen (45) between the groups
UuidStr(b) ==
    [i \in 1..36 |->
        IF i \in {9, 14, 19, 24} THEN 45
        ELSE LET d == i - Cardinality({h \in {9, 14, 19, 24} : h < i})
             IN  HexDigit(IF d % 2 = 1 THEN b[(d + 1) \div 2] \div 16
                          ELSE b[d \div 2] % 16)]

\* a plausible slip: uuid.uuid4(), which reads the process's entropy
Uuid4FromEntropy(seed_int) ==
    UuidStr(VersionVariant([j \in 1..16 |-> RngBytes(entropy, j)]))

\* uuid4_deterministic on a fresh generator of seed seed_int
Uuid4Deterministic(seed_int) ==
    UuidStr(VersionVariant([j \in 1..16 |-> RngBytes(seed_int, j)]))

\* dict.update and dict.pop
Update(call, fields) == fields @@ call
Without(call, keys) == [k \in DOMAIN call \ keys |-> call[k]]

Suppressed == {"Hold_time", "Silence_ratio", "Interruptions_count"}

\* a plausible slip: the channel compared with "Text", as sample_automation does
SuppressCapitalised(channel, call) ==
    IF channel = "Text" THEN Without(call, Suppressed) ELSE call

\* cli.py lines 95-98
SuppressText(channel, call) ==
    IF channel = "text" THEN Without(call, Suppressed) ELSE call

\* a plausible slip: the channel test of validate_this the wrong way round
ValidateText(validate_arg, channel) == validate_arg /\ channel = "text"

\* cli.py line 135
ValidateThis(validate_arg, channel) == validate_arg /\ channel # "text"

\* write_call_json after validation: the file of (date, call_id) is (over)written
WriteCallJson(out_dir, call) ==
    {f \in out_dir : ~(f.date = call.date /\ f.call_id = call.call_id)} \cup {call}

\* the locals of the loop body once the record is created (cli.py lines 34-66):
\* the context, the record, the cache, the metrics last sampled, the position
\* reached in the call's own generator, and whether a sampler has raised
BeginCall(slot, call_seed, cache) ==
    [ctx |-> [date |-> slot.date, weekday |-> slot.weekday,
              time_of_day_bucket |-> slot.time_of_day_bucket,
              agent_name |-> slot.agent_name, team |-> slot.team,
              agent_shift |-> slot.agent_shift, customer_segment |-> "", channel |-> "",
              region |-> "", language |-> "", device_type |-> "",
              outage_flag |-> slot.outage_flag, app_issue_flag |-> slot.app_issue_flag,
              premium_wait_peak |-> slot.premium_wait_peak, call_seed |-> call_seed,
              hour_lt_18 |-> slot.time_of_day_bucket \in {"Morning", "Afternoon"}],
     call |-> [call_id |-> Uuid4Deterministic(call_seed), date |-> slot.date,
               weekday |-> slot.weekday, time_of_day_bucket |-> slot.time_of_day_bucket,
               agent_name |-> slot.agent_name, team |-> slot.team,
               agent_shift |-> slot.agent_shift],
     cache |-> cache, op |-> <<>>, p |-> 8, raised |-> FALSE]

\* The statements of the loop body, each on the locals the ones before it left;
\* an exception raised by an earlier statement has left the loop body.
\* cli.py lines 68-70
SegmentStep(st, cfg, global_seed) ==
    LET seg == sample_customer_segment(st.ctx, cfg, global_seed)
    IN  IF st.raised THEN st
        ELSE IF seg = Raise THEN [st EXCEPT !.raised = TRUE]
        ELSE [st EXCEPT !.ctx.customer_segment = seg,
                        !.call = Update(@, [customer_segment |-> seg])]

\* cli.py lines 72-74
ChannelStep(st, cfg, global_seed) ==
    LET ch == sample_channel(st.ctx, cfg, global_seed)
    IN  IF st.raised THEN st
        ELSE IF ch = Raise THEN [st EXCEPT !.raised = TRUE]
        ELSE [st EXCEPT !.ctx.channel = ch, !.call = Update(@, [channel |-> ch])]

\* cli.py lines 77-81, on the record sample_geo_language_device returns
SetGeo(st, geo) ==
    IF geo.region = Raise \/ geo.language = Raise \/ geo.device_type = Raise
    THEN [st EXCEPT !.raised = TRUE]
    ELSE [st EXCEPT !.ctx.region = geo.region, !.ctx.language = geo.language,
                    !.ctx.device_type = geo.device_type, !.call = Update(@, geo)]

\* cli.py lines 77-81
GeoStep(st, cfg, global_seed) ==
    IF st.raised THEN st
    ELSE SetGeo(st, sample_geo_language_device(st.ctx, cfg, global_seed,
                                               st.ctx.customer_segment))

\* cli.py lines 83-86
IntentStep(st, cfg, global_seed) ==
    IF st.raised THEN st
    ELSE [st EXCEPT !.call = Update(@, [intent |-> sample_intent(st.ctx, cfg, global_seed)]),
                    !.ctx = Update(@, [intent |-> sample_intent(st.ctx, cfg, global_seed)])]

\* cli.py lines 88-89
ScenarioStep(st, cfg, global_seed) ==
    LET scenario == sample_scenario(st.ctx, st.call.intent, cfg, global_seed)
    IN  IF st.raised THEN st
        ELSE IF scenario = Raise THEN [st EXCEPT !.raised = TRUE]
        ELSE [st EXCEPT !.call = Update(@, [scenario |-> scenario])]

\* cli.py lines 91-92
OpsUpdate(st, cfg) ==
    LET op == sample_ops_metrics(st.ctx, cfg)
    IN  IF st.raised THEN st
        ELSE [st EXCEPT !.op = op, !.call = Update(@, op)]

\* cli.py lines 95-98
TextSuppress(st) ==
    IF st.raised THEN st
    ELSE [st EXCEPT !.call = SuppressText(st.ctx.channel, @)]

\* cli.py lines 91-98
OpsStep(st, cfg) == TextSuppress(OpsUpdate(st, cfg))

\* cli.py lines 100-101; the escalation draw moves the call's generator on
ResolutionStep(st) ==
    IF st.raised THEN st
    ELSE [st EXCEPT !.call = Update(@, sample_resolution(st.ctx, st.call.intent, st.op.FCR)),
                    !.p = IF EscalationDrawn(st.call.intent, st.op.FCR) THEN 9 ELSE 8]

\* cli.py lines 103-104
NpsStep(st, cfg) ==
    IF st.raised THEN st
    ELSE [st EXCEPT !.call = Update(@, sample_nps(st.ctx, st.op.FCR, st.op.AWT, cfg, st.p))]

\* a plausible slip: a hit reuses the ANI alone, region and language stay the
\* call's own
CacheAniOnly(st, cust_key, global_seed) ==
    LET ani == generate_german_ani(global_seed, cust_key)
    IN  IF cust_key \in DOMAIN st.cache
        THEN [st EXCEPT !.call = Update(@, [ANI |-> st.cache[cust_key].ANI])]
        ELSE [st EXCEPT !.call = Update(@, [ANI |-> ani]),
                        !.cache = (cust_key :> [ANI |-> ani, region |-> st.ctx.region,
                                                language |-> st.ctx.language]) @@ @]

\* a plausible slip: every call stores its own region and language, the last
\* writer wins
CacheAniLastWriter(st, cust_key, global_seed) ==
    LET ani == generate_german_ani(global_seed, cust_key)
    IN  [st EXCEPT !.call = Update(@, [ANI |-> ani]),
                   !.cache = (cust_key :> [ANI |-> ani, region |-> st.ctx.region,
                                           language |-> st.ctx.language]) @@ @]

\* a plausible slip: a hit brings the Context in line with the cached identity too
CacheAniIntoContext(st, cust_key, global_seed) ==
    LET ani == generate_german_ani(global_seed, cust_key)
    IN  IF cust_key \in DOMAIN st.cache
        THEN [st EXCEPT !.call = Update(@, [ANI |-> st.cache[cust_key].ANI,
                                            region |-> st.cache[cust_key].region,
                                            language |-> st.cache[cust_key].language]),
                        !.ctx.region = st.cache[cust_key].region,
                        !.ctx.language = st.cache[cust_key].language]
        ELSE [st EXCEPT !.call = Update(@, [ANI |-> ani]),
                        !.cache = (cust_key :> [ANI |-> ani, region |-> st.ctx.region,
                                                language |-> st.ctx.language]) @@ @]

\* cli.py lines 108-119, on a key the cache holds and on one it does not
CacheAni(st, cust_key, global_seed) ==
    LET ani == generate_german_ani(global_seed, cust_key)
    IN  IF cust_key \in DOMAIN st.cache
        THEN [st EXCEPT !.call = Update(@, [ANI |-> st.cache[cust_key].ANI,
                                            region |-> st.cache[cust_key].region,
                                            language |-> st.cache[cust_key].language])]
        ELSE [st EXCEPT !.call = Update(@, [ANI |-> ani]),
                        !.cache = (cust_key :> [ANI |-> ani, region |-> st.ctx.region,
                                                language |-> st.ctx.language]) @@ @]

\* cli.py lines 106-119
AniStep(st, global_seed) ==
    IF st.raised THEN st
    ELSE CacheAni(st, <<st.ctx.customer_segment, st.ctx.channel,
                        FirstWord(Utf8(st.call.scenario))>>, global_seed)

\* cli.py lines 121-123
SilenceTotalStep(st, cfg) ==
    IF st.raised THEN st
    ELSE [st EXCEPT !.call = Update(@, [Silence_total_seconds |->
              sample_silence_total_seconds(st.ctx, st.call.scenario, st.call.NPS_score,
                                           cfg, st.p + 2)])]

\* cli.py lines 125-126
ProductsStep(st, cfg, global_seed) ==
    LET prod == sample_products(st.ctx, cfg, global_seed)
    IN  IF st.raised THEN st
        ELSE IF prod.product = Raise \/ prod.amount_bucket = Raise
        THEN [st EXCEPT !.raised = TRUE]
        ELSE [st EXCEPT !.call = Update(@, prod)]

\* cli.py lines 128-129
AutomationStep(st, cfg, global_seed) ==
    LET auto == sample_automation(st.ctx, st.call.intent, cfg, global_seed, st.p + 3)
    IN  IF st.raised THEN st
        ELSE IF auto.self_service_potential = Raise \/ auto.automation_action_type = Raise
        THEN [st EXCEPT !.raised = TRUE]
        ELSE [st EXCEPT !.call = Update(@, auto)]

\* cli.py lines 131-132
ComplianceStep(st, cfg) ==
    IF st.raised THEN st
    ELSE [st EXCEPT !.call = Update(@, sample_compliance(st.ctx, cfg, st.p + 4))]

\* cli.py lines 135-136: the exception that left the loop body, if any, and else
\* the record validated and written
Persist(st, validate_arg, out_dir) ==
    IF st.raised
    THEN [status |-> "ValueError", cache |-> st.cache, out_dir |-> out_dir]
    ELSE IF ValidateThis(validate_arg, st.ctx.channel) /\ ~validate_against_schema(st.call)
    THEN [status |-> "ValidationError", cache |-> st.cache, out_dir |-> out_dir]
    ELSE [status |-> "running", cache |-> st.cache, out_dir |-> WriteCallJson(out_dir, st.call)]

\* one iteration of the innermost loop: the outcome, the cache and the out_dir
\* afterwards (cli.py lines 34-136)
AssembleCall(slot, cfg, global_seed, validate_arg, cache, out_dir) ==
    Persist(
     ComplianceStep(
      AutomationStep(
       ProductsStep(
        SilenceTotalStep(
         AniStep(
          NpsStep(
           ResolutionStep(
            OpsStep(
             ScenarioStep(
              IntentStep(
               GeoStep(
                ChannelStep(
                 SegmentStep(
                  BeginCall(slot,
                            GenSeed(global_seed,
                                    Key(<<KStr(slot.date), KStr(slot.agent_name),
                                          KStr(slot.agent_shift),
                                          KStr(slot.time_of_day_bucket), KInt(slot.i)>>)),
                            cache),
                  cfg, global_seed),
                 cfg, global_seed),
                cfg, global_seed),
               cfg, global_seed),
              cfg, global_seed),
             cfg)),
           cfg),
          global_seed),
         cfg),
        cfg, global_seed),
       cfg, global_seed),
      cfg),
     validate_arg, out_dir)

(***************************************************************************)
(* The configurations and arguments generate_dataset is run with           *)
(***************************************************************************)
Entropies == {0, 1}

\* the seed arguments tried
RunSeeds == {3, 7}

BaseConfig ==
    [calendar |-> [outages_count |-> 0, app_issue_after_outage_days |-> 0,
                   premium_wait_peak_days |-> {}, weekday_factors10 |-> <<>>],
     volume |-> [base_weekday |-> 10, base_weekend |-> 10, reduction10 |-> 2,
                 incident_boost_min |-> 25, incident_boost_max |-> 40],
     allocation |-> [weekday |-> << <<"Monika_Mueller", 1>>, <<"Lukas_Schmidt", 1>> >>,
                     weekend |-> << <<"Monika_Mueller", 1>>, <<"Lukas_Schmidt", 1>> >>],
     shifts |-> [a \in AAgents |-> << <<"Early", 1>>, <<"Late", 1>> >>],
     teams |-> [a \in AAgents |-> IF a = "Monika_Mueller" THEN "Team A" ELSE "Team B"],
     buckets |-> [weekday |-> << <<"Morning", 1>>, <<"Evening", 1>> >>,
                  weekend |-> << <<"Morning", 1>>, <<"Evening", 1>> >>],
     segments |-> << <<"Premium", 1>>, <<"Standard", 3>> >>,
     channels |-> << <<"voice", 1>>, <<"text", 1>> >>,
     geo_region |-> << <<"ZH", 1>>, <<"BE", 1>> >>,
     geo_language |-> << <<"DE", 3>>, <<"FR", 1>> >>,
     premium_language_bias |-> << <<"EN", 1>> >>,
     devices |-> << <<"iOS", 1>>, <<"Android", 1>>, <<"Desktop", 1>> >>,
     intents |-> << <<"Online-Banking", 1>>, <<"Transfer", 1>> >>,
     scenarios |-> << <<"Login problem", 1>>, <<"Card blocked", 1>> >>,
     products |-> << <<"Transfer", 1>>, <<"Card", 1>> >>,
     amount_buckets |-> << <<"<100", 1>>, <<">5000", 1>> >>,
     automation |-> [self_service_potential |-> << <<"Low", 1>>, <<"Medium", 1>>, <<"High", 1>> >>,
                     action_present_base |-> 15, intent_lifts |-> << <<"Transfer", 30>> >>,
                     outage_penalty |-> 0 - 7,
                     action_type |-> << <<"reset password", 1>>, <<"check balance", 1>> >>],
     ops |-> [awt_median |-> 90, awt_sigma |-> 25, awt_outage_delta |-> 60,
              awt_channel_deltas |-> << <<"text", 0 - 60>> >>, awt_team_deltas |-> <<>>,
              awt_premium_wait_peak_delta |-> 0,
              hold_median |-> 45, hold_sigma |-> 20, hold_channel_deltas |-> <<>>,
              transfers_probs |-> << <<0, 70>>, <<1, 20>>, <<2, 8>>, <<3, 2>> >>,
              silence_mean |-> 9, silence_sigma |-> 4, silence_channel_deltas |-> <<>>,
              interruptions_mean10 |-> 12, interruptions_sigma10 |-> 8,
              interruptions_channel_deltas10 |-> <<>>,
              fcr_base_prob |-> 78, fcr_penalty_outage |-> 0 - 15,
              fcr_penalty_channel |-> <<>>, fcr_penalty_team |-> <<>>],
     nps |-> [base_weights |-> << <<6, 15>>, <<7, 20>>, <<8, 25>>, <<9, 25>>, <<10, 15>> >>,
              awt_gt_120 |-> 0 - 2, fcr_zero |-> 0 - 1, premium_waittime |-> 0 - 2,
              happy_cap |-> 10],
     silence_total |-> [base_mean |-> 12, base_sigma |-> 6, agent_deltas |-> <<>>,
                        team_deltas |-> <<>>, channel_lifts |-> <<>>, scenario_lifts |-> <<>>,
                        low_threshold |-> 7, per_point_below2 |-> 3],
     compliance |-> [pass_rates |-> << <<"Greeting", 950>>, <<"Empathy", 900>>,
                                       <<"Summary", 850>>, <<"Farewell", 950>> >>,
                     global_delta |-> 0, channel_deltas |-> <<>>, team_deltas |-> <<>>,
                     outage_empathy_penalty |-> 0 - 80, monika_pass_bonus |-> 50,
                     script_adherence_mean |-> 86, script_adherence_sigma |-> 6]]

\* the channels.base tables tried: both channels, voice only, text only
ChannelTables ==
    {<< <<"voice", 1>>, <<"text", 1>> >>, << <<"voice", 1>> >>, << <<"text", 1>> >>}

\* the geo.region tables tried: regions of the schema, and a label outside its enum
RegionTables == {<< <<"ZH", 1>>, <<"BE", 1>> >>, << <<"XX", 1>>, <<"ZH", 1>> >>}

\* the agents.members.<agent>.shifts profiles tried: every agent has one, or
\* Lukas_Schmidt has none
ShiftProfiles ==
    {BaseConfig.shifts,
     [a \in {"Monika_Mueller"} |-> << <<"Early", 1>>, <<"Late", 1>> >>]}

Configs ==
    {[BaseConfig EXCEPT !.channels = c, !.geo_region = r, !.shifts = s] :
        c \in ChannelTables, r \in RegionTables, s \in ShiftProfiles}

(***************************************************************************)
(* generate_dataset, executed twice on the same arguments, each execution  *)
(* in a process of its own with an empty out_dir                           *)
(***************************************************************************)
GenInit ==
    /\ seed \in RunSeeds
    /\ config \in Configs
    /\ validate \in BOOLEAN
    /\ entropy \in Entropies
    /\ run = 1
    /\ todo = Iterations(config, seed)
    /\ ani_cache = <<>>
    /\ files = {}
    /\ status = "running"
    /\ first = NoRun
    /\ RngIdle
    /\ WeightsIdle
    /\ AllocIdle
    /\ CallIdle
    /\ StepIdle

\* one pass through the body of the innermost loop (cli.py lines 34-136)
GenerateCall ==
    /\ status = "running"
    /\ todo # <<>>
    /\ Head(todo).kind = "call"
    /\ \E r \in {AssembleCall(Head(todo), config, seed, validate, ani_cache, files)} :
           /\ status' = r.status
           /\ ani_cache' = r.cache
           /\ files' = r.out_dir
           /\ todo' = IF r.status = "running" THEN Tail(todo) ELSE todo
    /\ UNCHANGED <<seed, config, validate, entropy, run, first, rngVars, weightVars, allocVars, callVars, stepVars>>

\* a split of the cascade raises (cli.py lines 26, 28, 31)
SplitRaises ==
    /\ status = "running"
    /\ todo # <<>>
    /\ Head(todo).kind = "raise"
    /\ status' = "ValueError"
    /\ UNCHANGED <<seed, config, validate, entropy, run, todo, ani_cache, files, first,
                   rngVars, weightVars, allocVars, callVars, stepVars>>

\* the loops are exhausted and generate_dataset returns
Return ==
    /\ status = "running"
    /\ todo = <<>>
    /\ status' = "returned"
    /\ UNCHANGED <<seed, config, validate, entropy, run, todo, ani_cache, files, first,
                   rngVars, weightVars, allocVars, callVars, stepVars>>

\* the second, independent execution starts (cli.py lines 20-22)
SecondExecution ==
    /\ run = 1
    /\ status # "running"
    /\ first' = [files |-> files, status |-> status, entropy |-> entropy]
    /\ run' = 2
    /\ entropy' \in Entropies
    /\ todo' = Iterations(config, seed)
    /\ ani_cache' = <<>>
    /\ files' = {}
    /\ status' = "running"
    /\ UNCHANGED <<seed, config, validate, rngVars, weightVars, allocVars, callVars, stepVars>>

Next ==
    \/ GenerateCall
    \/ SplitRaises
    \/ Return
    \/ SecondExecution

Spec == GenInit /\ [][Next]_vars

C7_PersistedVoiceSatisfiesSchema ==
    \A f \in files : f.channel = "voice" => validate_against_schema(f)

\* C7 amended: when generate_dataset is called with validate=True, every voice
\* record in out_dir satisfies the schema (it passed validate_against_schema
\* before it was written).
C7_ValidatedVoiceSatisfiesSchema ==
    validate => \A f \in files : f.channel = "voice" => validate_against_schema(f)

\* validate=True, a region table with a label outside the schema, and a voice
\* record written
C7_Witness ==
    /\ validate
    /\ config.geo_region \in {t \in RegionTables : \E i \in DOMAIN t : t[i][1] = "XX"}
    /\ \E f \in files : f.channel = "voice"

\* C8 as claimed: a validation failure does not end the run: generate_dataset
\* never stops on a ValidationError with iterations after the failed record
\* still to make.
C8_ValidationFailureIsPerRecord ==
    ~(status = "ValidationError" /\ Len(todo) > 1)

\* C9: every text record in out_dir has none of Hold_time, Silence_ratio and
\* Interruptions_count, and every voice record has all three.
C9_TextSuppression ==
    \A f \in files :
        /\ f.channel = "text" => Suppressed \cap DOMAIN f = {}
        /\ f.channel = "voice" => Suppressed \subseteq DOMAIN f

\* a text record and a voice record written by one execution
C9_Witness ==
    /\ \E f \in files : f.channel = "text"
    /\ \E f \in files : f.channel = "voice"

\* C10 as claimed: every text record in out_dir satisfies the schema with the
\* three suppressed fields taken off its required list.
C10_PersistedTextSatisfiesReducedSchema ==
    \A f \in files : f.channel = "text" => SatisfiesSchema(f, Required \ Suppressed)

(***************************************************************************)
(* The same calls generated in any order by workers that share one         *)
(* identity cache and one out_dir; first holds what generate_dataset       *)
(* produces in loop order                                                  *)
(***************************************************************************)
RECURSIVE RunLoop(_, _, _, _, _)
\* generate_dataset from the iterations iters on, r being the outcome of the
\* iteration before: the out_dir and outcome at its end
RunLoop(iters, cfg, global_seed, validate_arg, r) ==
    IF r.status # "running" THEN [files |-> r.out_dir, status |-> r.status, entropy |-> 0]
    ELSE IF iters = <<>> THEN [files |-> r.out_dir, status |-> "returned", entropy |-> 0]
    ELSE IF Head(iters).kind = "raise"
    THEN [files |-> r.out_dir, status |-> "ValueError", entropy |-> 0]
    ELSE RunLoop(Tail(iters), cfg, global_seed, validate_arg,
                 AssembleCall(Head(iters), cfg, global_seed, validate_arg, r.cache, r.out_dir))

\* the arguments on which generate_dataset returns in loop order
OrderInit ==
    /\ seed \in RunSeeds
    /\ config \in Configs
    /\ validate \in BOOLEAN
    /\ entropy = 0
    /\ run = 2
    /\ todo = Iterations(config, seed)
    /\ ani_cache = <<>>
    /\ files = {}
    /\ status = "running"
    /\ first = RunLoop(todo, config, seed, validate,
                       [status |-> "running", cache |-> <<>>, out_dir |-> {}])
    /\ first.status = "returned"
    /\ RngIdle
    /\ WeightsIdle
    /\ AllocIdle
    /\ CallIdle
    /\ StepIdle

\* a worker makes any one of the iterations still to make (cli.py lines 34-136)
GenerateAnyCall ==
    /\ status = "running"
    /\ \E i \in DOMAIN todo :
          \E r \in {AssembleCall(todo[i], config, seed, validate, ani_cache, files)} :
              /\ status' = r.status
              /\ ani_cache' = r.cache
              /\ files' = r.out_dir
              /\ todo' = IF r.status = "running" THEN RemoveAt(todo, i) ELSE todo
    /\ UNCHANGED <<seed, config, validate, entropy, run, first, rngVars, weightVars, allocVars, callVars, stepVars>>

\* every iteration has been made
AllGenerated ==
    /\ status = "running"
    /\ todo = <<>>
    /\ status' = "returned"
    /\ UNCHANGED <<seed, config, validate, entropy, run, todo, ani_cache, files, first,
                   rngVars, weightVars, allocVars, callVars, stepVars>>

OrderNext ==
    \/ GenerateAnyCall
    \/ AllGenerated

SpecOrder == OrderInit /\ [][OrderNext]_vars

\* C2 as claimed: whatever the order in which the calls are generated, every
\* record written has the value of every field that loop order gives it: it is
\* one of the records generate_dataset writes in loop order.
C2_RecordsIndependentOfOrder ==
    \A f \in files : f \in first.files

\* the customer key of a written record (cli.py line 107)
KeyOfRecord(f) == <<f.customer_segment, f.channel, FirstWord(Utf8(f.scenario))>>

\* C13: every record written carries the ANI, region and language the cache
\* holds for its customer key, so two records of one run with the same
\* customer key carry the same ANI, region and language.
C13_RecordsCarryCachedIdentity ==
    \A f \in files :
        /\ KeyOfRecord(f) \in DOMAIN ani_cache
        /\ f.ANI = ani_cache[KeyOfRecord(f)].ANI
        /\ f.region = ani_cache[KeyOfRecord(f)].region
        /\ f.language = ani_cache[KeyOfRecord(f)].language

\* two records of different days with one customer key
C13_Witness ==
    \E f, g \in files : f.date # g.date /\ KeyOfRecord(f) = KeyOfRecord(g)

\* C14: within one execution an entry of the identity cache, once stored, is
\* neither removed nor changed by any later call.
C14_FirstWriterWins ==
    [][run' = run
       => \A k \in DOMAIN ani_cache : k \in DOMAIN ani_cache' /\ ani_cache'[k] = ani_cache[k]]_vars

\* a call has met a key the cache already held, and the cache holds several keys
C14_Witness ==
    /\ Cardinality(DOMAIN ani_cache) >= 2
    /\ \E f, g \in files : f # g /\ KeyOfRecord(f) = KeyOfRecord(g)

\* the key under which the field of the written record f was drawn
KeyOfField(field, f) ==
    FieldKey(field, f,
             CASE field = "intent" -> 0
               [] field \in {"scenario", "ssp", "action"} -> f.intent
               [] field = "amount" -> f.product
               [] OTHER -> None)

\* whether the call of the written record f drew the field at all
FieldDrawn(field, f) ==
    CASE field = "amount" -> f.amount_bucket # None
      [] field = "action" -> f.automation_action_type # None
      [] OTHER -> TRUE

\* C24 as claimed: for any two distinct calls of a run, the key under which a
\* categorical field is drawn for the one differs from the key under which the
\* same field is drawn for the other.
C24_FieldKeysDistinct ==
    \A f, g \in files :
        f # g
        => \A field \in {"segment", "channel", "region", "language", "device", "intent_count",
                          "intent", "scenario", "product", "amount", "ssp", "action"} :
               (FieldDrawn(field, f) /\ FieldDrawn(field, g))
               => KeyOfField(field, f) # KeyOfField(field, g)

(***************************************************************************)
(* The loop body of generate_dataset statement by statement (cli.py lines  *)
(* 58-136): pc is the statement about to execute, locals what the ones     *)
(* before it left                                                          *)
(***************************************************************************)
\* the statements of the loop body after the record is created, in program order
Statement(n, st, cfg, global_seed) ==
    CASE n = 1 -> SegmentStep(st, cfg, global_seed)
      [] n = 2 -> ChannelStep(st, cfg, global_seed)
      [] n = 3 -> GeoStep(st, cfg, global_seed)
      [] n = 4 -> IntentStep(st, cfg, global_seed)
      [] n = 5 -> ScenarioStep(st, cfg, global_seed)
      [] n = 6 -> OpsUpdate(st, cfg)
      [] n = 7 -> TextSuppress(st)
      [] n = 8 -> ResolutionStep(st)
      [] n = 9 -> NpsStep(st, cfg)
      [] n = 10 -> AniStep(st, global_seed)
      [] n = 11 -> SilenceTotalStep(st, cfg)
      [] n = 12 -> ProductsStep(st, cfg, global_seed)
      [] n = 13 -> AutomationStep(st, cfg, global_seed)
      [] n = 14 -> ComplianceStep(st, cfg)

\* the number of statements between the creation of the record and its persistence
LastStatement == 14

\* cli.py lines 34-66: the call's generator, the Context and the record are created
BeginStatement ==
    /\ status = "running"
    /\ pc = 0
    /\ todo # <<>>
    /\ Head(todo).kind = "call"
    /\ locals' = BeginCall(Head(todo),
                           GenSeed(seed, Key(<<KStr(Head(todo).date), KStr(Head(todo).agent_name),
                                               KStr(Head(todo).agent_shift),
                                               KStr(Head(todo).time_of_day_bucket),
                                               KInt(Head(todo).i)>>)),
                           ani_cache)
    /\ pc' = 1
    /\ UNCHANGED <<genVars, rngVars, weightVars, allocVars, callVars>>

\* cli.py lines 68-132: the next statement executes
NextStatement ==
    /\ pc \in 1..LastStatement
    /\ locals' = Statement(pc, locals, config, seed)
    /\ pc' = pc + 1
    /\ UNCHANGED <<genVars, rngVars, weightVars, allocVars, callVars>>

\* cli.py lines 135-136: the record is validated and written, or the exception
\* a statement raised leaves generate_dataset
PersistStatement ==
    /\ pc = LastStatement + 1
    /\ \E r \in {Persist(locals, validate, files)} :
           /\ status' = r.status
           /\ ani_cache' = r.cache
           /\ files' = r.out_dir
           /\ todo' = IF r.status = "running" THEN Tail(todo) ELSE todo
    /\ pc' = 0
    /\ locals' = <<>>
    /\ UNCHANGED <<seed, config, validate, entropy, run, first, rngVars, weightVars, allocVars, callVars>>

\* the configurations of Configs, and two with other intents, under which few
\* calls are resolved at first contact
StepConfigs ==
    Configs \cup {[BaseConfig EXCEPT !.intents = t, !.ops.fcr_base_prob = 20] :
                     t \in {<< <<"Technical Support", 1>>, <<"Loan", 1>> >>,
                            << <<"Loan", 1>>, <<"Transfer", 3>> >>}}

\* generate_dataset is entered (cli.py lines 19-22)
StepInit ==
    /\ seed \in RunSeeds
    /\ config \in StepConfigs
    /\ validate \in BOOLEAN
    /\ entropy \in Entropies
    /\ run = 1
    /\ todo = Iterations(config, seed)
    /\ ani_cache = <<>>
    /\ files = {}
    /\ status = "running"
    /\ first = NoRun
    /\ RngIdle
    /\ WeightsIdle
    /\ AllocIdle
    /\ CallIdle
    /\ StepIdle

StepNext ==
    \/ BeginStatement
    \/ NextStatement
    \/ PersistStatement
    \/ SplitRaises /\ pc = 0
    \/ Return /\ pc = 0

SpecSteps == StepInit /\ [][StepNext]_vars

\* one field of each group of the order, in the order
GroupFields ==
    <<"customer_segment", "channel", "region", "intent", "scenario", "AWT", "escalation",
      "NPS_score", "ANI", "Silence_total_seconds", "product", "self_service_potential",
      "compliance_flags">>

\* a group's field is in the record only when those of the groups before it are
WrittenInOrder(call) ==
    \A i, j \in DOMAIN GroupFields :
        (i < j /\ GroupFields[j] \in DOMAIN call) => GroupFields[i] \in DOMAIN call

\* the fields of the Context that receive a sampled value
ContextSampled == {"customer_segment", "channel", "region", "language", "device_type"}

\* a Context field that has its sampled value keeps it over the statement
ContextKept ==
    /\ \A k \in ContextSampled : locals.ctx[k] # "" => locals'.ctx[k] = locals.ctx[k]
    /\ "intent" \in DOMAIN locals.ctx
          => ("intent" \in DOMAIN locals'.ctx /\ locals'.ctx.intent = locals.ctx.intent)

\* the record field k keeps its value over the statement
FieldKept(k) == k \in DOMAIN locals'.call /\ locals'.call[k] = locals.call[k]

\* the customer key of the call under assembly (cli.py line 107)
CustKey(st) == <<st.ctx.customer_segment, st.ctx.channel, FirstWord(Utf8(st.call.scenario))>>

\* C26 as claimed: the groups are written in the fixed order, and once a
\* Context or record field has its value no later statement of the loop body
\* overwrites or removes it before the record is persisted.
C26_FieldsWrittenOnce ==
    [][(pc >= 1 /\ pc' > pc)
       => /\ WrittenInOrder(locals'.call)
          /\ ContextKept
          /\ \A k \in DOMAIN locals.call : FieldKept(k)]_vars

\* C26 amended: the groups are written in the fixed order and every Context
\* field is written once; a record field keeps its value until the record is
\* persisted, except that the statement after the ops metrics removes
\* Hold_time, Silence_ratio and Interruptions_count from a text call, and the
\* identity statement replaces region and language by the cached ones when the
\* customer key is in the cache.
C26_FieldsKeptButSuppressionAndIdentity ==
    [][(pc >= 1 /\ pc' > pc)
       => /\ WrittenInOrder(locals'.call)
          /\ ContextKept
          /\ \A k \in DOMAIN locals.call :
                \/ FieldKept(k)
                \/ /\ pc = 7
                   /\ locals.ctx.channel = "text"
                   /\ k \in Suppressed
                   /\ k \notin DOMAIN locals'.call
                \/ /\ pc = 10
                   /\ k \in {"region", "language"}
                   /\ CustKey(locals) \in DOMAIN locals.cache
                   /\ k \in DOMAIN locals'.call
                   /\ locals'.call[k] = locals.cache[CustKey(locals)][k]]_vars

\* a text call about to be persisted whose region came from the cache and is
\* not the one its Context holds
C26_Witness ==
    /\ pc = LastStatement + 1
    /\ ~locals.raised
    /\ locals.ctx.channel = "text"
    /\ Suppressed \cap DOMAIN locals.call = {}
    /\ locals.call.region # locals.ctx.region

\* the intents whose unresolved calls go to IT
ItIntents == {"Online-Banking", "Technical Support"}

\* C29: in every record that has its resolution fields, escalation is "None"
\* if and only if FCR is true; when FCR is false it is "IT Ticket" exactly when
\* the intent is Online-Banking or Technical Support and else Backoffice or
\* Supervisor, and the call's generator has given one more draw in that last
\* case only.
C29_EscalationRule ==
    (pc >= 9 /\ ~locals.raised)
    => /\ (locals.call.escalation = "None") <=> locals.call.FCR
       /\ ~locals.call.FCR
            => /\ (locals.call.escalation = "IT Ticket") <=> (locals.call.intent \in ItIntents)
               /\ locals.call.intent \notin ItIntents
                     => locals.call.escalation \in {"Backoffice", "Supervisor"}
       /\ locals.p = IF ~locals.call.FCR /\ locals.call.intent \notin ItIntents THEN 9 ELSE 8

\* an unresolved Loan call escalated to the back office on the extra draw
C29_Witness ==
    /\ pc = LastStatement + 1
    /\ ~locals.raised
    /\ ~locals.call.FCR
    /\ locals.call.intent = "Loan"
    /\ locals.call.escalation = "Backoffice"
    /\ locals.p = 9

(***************************************************************************)
(* Functions of the package called on their own: the arguments are drawn   *)
(* from bounded sets, the function is applied once                         *)
(***************************************************************************)
MaxRangeDays == 6
MaxOutages == 3
MaxAfterDays == 2

\* the last day of the range a calendar function is called on
EndDate(c) == c.start + c.days - 1

\* select_outage_days and make_calendar called on ranges of 0..MaxRangeDays days
\* starting on any day of the week
CalendarCalls ==
    [name : {"select_outage_days"}, start : 1..7, days : 0..MaxRangeDays,
     outages : (0 - 1)..MaxOutages, seed : Seeds]
    \cup [name : {"make_calendar"}, start : 1..7, days : 0..MaxRangeDays,
          outages : 0..MaxOutages, app_after_days : (0 - 1)..MaxAfterDays, seed : {7}]

\* the part of the configuration make_calendar reads (calendar.py lines 43-46)
CalendarConfig(c) ==
    [calendar |-> [outages_count |-> c.outages,
                   app_issue_after_outage_days |-> c.app_after_days,
                   premium_wait_peak_days |-> {"Mon"},
                   weekday_factors10 |-> << <<"Sat", 5>> >>]]

CallSelectOutageDays ==
    /\ fcall.name = "select_outage_days"
    /\ ~fret.done
    /\ fret' = [done |-> TRUE,
                value |-> select_outage_days(fcall.start, EndDate(fcall), fcall.outages,
                                             fcall.seed)]
    /\ UNCHANGED <<fcall, rngVars, weightVars, allocVars, genVars, stepVars>>

CallMakeCalendar ==
    /\ fcall.name = "make_calendar"
    /\ ~fret.done
    /\ fret' = [done |-> TRUE,
                value |-> make_calendar(fcall.start, EndDate(fcall), CalendarConfig(fcall),
                                        fcall.seed)]
    /\ UNCHANGED <<fcall, rngVars, weightVars, allocVars, genVars, stepVars>>

\* C11: with app_issue_after_outage_days = k, a DayPlan of the range has
\* app_issue_flag set exactly when its date is d + j for an outage date d of the
\* calendar and some j in 1..k.
C11_AppIssueWindow ==
    (fcall.name = "make_calendar" /\ fret.done)
    => LET days == fret.value
           outage == {fcall.start + i - 1 : i \in {i \in DOMAIN days : days[i].outage_flag}}
       IN  \A i \in DOMAIN days :
               days[i].app_issue_flag
               <=> \E d \in outage, j \in 1..fcall.app_after_days : fcall.start + i - 1 = d + j

\* a calendar with a window of two days: a day inside a window, a day after an
\* outage and outside every window, and an outage day that is in no window
C11_Witness ==
    /\ fcall.name = "make_calendar"
    /\ fret.done
    /\ fcall.app_after_days = 2
    /\ \E i, j, m \in DOMAIN fret.value :
          /\ fret.value[i].outage_flag /\ ~fret.value[i].app_issue_flag
          /\ i < j /\ fret.value[j].app_issue_flag
          /\ j < m /\ ~fret.value[m].app_issue_flag /\ ~fret.value[m].outage_flag

\* C12: select_outage_days returns distinct dates of [start, end] that fall on
\* Monday to Friday, exactly min(max(outages, 0), weekdays in range) of them.
C12_OutageDaysSelection ==
    (fcall.name = "select_outage_days" /\ fret.done)
    => LET weekdays == {d \in fcall.start..EndDate(fcall) : WeekdayIndex(d) < 5}
       IN  /\ fret.value \subseteq weekdays
           /\ Cardinality(fret.value) = Min(Max(fcall.outages, 0), Cardinality(weekdays))

\* more outages asked for than the range has weekdays, over a weekend
C12_Witness ==
    /\ fcall.name = "select_outage_days"
    /\ fret.done
    /\ Cardinality(fret.value) = 2
    /\ fcall.outages = 3
    /\ \E d \in fcall.start..EndDate(fcall) : WeekdayIndex(d) >= 5

\* the seeds of the call's own generator tried: between them every level of
\* each draw occurs
CallSeeds == 0..15

\* the part of Context the samplers called on their own read
SamplerContext(c) ==
    [call_seed |-> c.call_seed, premium_wait_peak |-> c.flag, outage_flag |-> c.flag,
     channel |-> c.channel, team |-> "Team A",
     agent_name |-> IF c.flag THEN "Monika_Mueller" ELSE "Lukas_Schmidt"]

\* sample_nps called under base-weight tables with positive, with no and with
\* negative weights, corrections that lower and that raise the score, and caps
\* below, at and above 10
NpsCalls ==
    [name : {"sample_nps"}, call_seed : CallSeeds, flag : BOOLEAN, channel : {"voice"},
     fcr : BOOLEAN, awt : {90, 130},
     base_weights : {BaseConfig.nps.base_weights, << <<0, 1>>, <<1, 0>> >>,
                     << <<3, 0>>, <<10, 0 - 1>> >>},
     awt_gt_120 : {0 - 2, 2}, happy_cap : {5, 10, 12}]

\* sample_ops_metrics called under several means, sigmas and channel deltas of
\* ops.silence_ratio
OpsCalls ==
    [name : {"sample_ops_metrics"}, call_seed : CallSeeds, flag : BOOLEAN,
     channel : {"voice", "text"},
     mean : {9, 60, 98}, sigma : {4, 40},
     channel_deltas : {<<>>, << <<"text", 0 - 20>>, <<"voice", 5>> >>}]

\* sample_compliance called under several means and sigmas of script adherence,
\* for both agents, with an outage penalty that lowers and one that raises the
\* Empathy rate, and with a bonus that raises and one that lowers the rates
ComplianceCalls ==
    [name : {"sample_compliance"}, call_seed : CallSeeds, flag : BOOLEAN,
     channel : {"voice", "text"},
     mean : {0 - 10, 2, 86, 99, 150}, sigma : {6, 60},
     agent : AAgents, penalty : {0 - 80, 200}, bonus : {50, 0 - 960}]

\* the configuration and the Context of a sample_compliance call
ComplianceConfig(c) ==
    [BaseConfig EXCEPT !.compliance.script_adherence_mean = c.mean,
                       !.compliance.script_adherence_sigma = c.sigma,
                       !.compliance.outage_empathy_penalty = c.penalty,
                       !.compliance.monika_pass_bonus = c.bonus]

ComplianceContext(c) == [SamplerContext(c) EXCEPT !.agent_name = c.agent]

CallSampleNps ==
    /\ fcall.name = "sample_nps"
    /\ ~fret.done
    /\ fret' = [done |-> TRUE,
                value |-> sample_nps(SamplerContext(fcall), fcall.fcr, fcall.awt,
                              [BaseConfig EXCEPT !.nps.base_weights = fcall.base_weights,
                                                 !.nps.awt_gt_120 = fcall.awt_gt_120,
                                                 !.nps.happy_cap = fcall.happy_cap],
                              8)]
    /\ UNCHANGED <<fcall, rngVars, weightVars, allocVars, genVars, stepVars>>

CallSampleOpsMetrics ==
    /\ fcall.name = "sample_ops_metrics"
    /\ ~fret.done
    /\ fret' = [done |-> TRUE,
                value |-> sample_ops_metrics(SamplerContext(fcall),
                              [BaseConfig EXCEPT !.ops.silence_mean = fcall.mean,
                                                 !.ops.silence_sigma = fcall.sigma,
                                                 !.ops.silence_channel_deltas =
                                                     fcall.channel_deltas])]
    /\ UNCHANGED <<fcall, rngVars, weightVars, allocVars, genVars, stepVars>>

CallSampleCompliance ==
    /\ fcall.name = "sample_compliance"
    /\ ~fret.done
    /\ fret' = [done |-> TRUE,
                value |-> sample_compliance(ComplianceContext(fcall), ComplianceConfig(fcall), 12),
                used |-> [i \in DOMAIN PassRates(ComplianceContext(fcall), ComplianceConfig(fcall)) |->
                            DrawProbability(PassRates(ComplianceContext(fcall),
                                                      ComplianceConfig(fcall))[i][2])]]
    /\ UNCHANGED <<fcall, rngVars, weightVars, allocVars, genVars, stepVars>>

\* C15: NPS_score lies in 0..10 in every record sample_nps returns, whatever
\* the base weights, corrections and cap configured.
C15_NpsScoreInRange ==
    (fcall.name = "sample_nps" /\ fret.done) => fret.value.NPS_score \in 0..10

\* C16: Silence_ratio lies in [0, 100] in every record sample_ops_metrics
\* returns, whatever the mean, sigma and channel delta configured.
C16_SilenceRatioInRange ==
    (fcall.name = "sample_ops_metrics" /\ fret.done)
    => (fret.value.Silence_ratio >= 0 /\ fret.value.Silence_ratio <= 100)

\* C17: sentiment_score lies in [-1, 1] (thousandths here) and script_adherence
\* in [0, 100] in every record sample_nps and sample_compliance return.
C17_SentimentAndAdherenceInRange ==
    /\ (fcall.name = "sample_nps" /\ fret.done)
       => (fret.value.sentiment_score >= 0 - 1000 /\ fret.value.sentiment_score <= 1000)
    /\ (fcall.name = "sample_compliance" /\ fret.done)
       => (fret.value.script_adherence >= 0 /\ fret.value.script_adherence <= 100)

\* a score whose linear transform is beyond 1 whatever the noise
C17_Witness ==
    /\ fcall.name = "sample_nps"
    /\ fret.done
    /\ fret.value.NPS_score = 12
    /\ fret.value.sentiment_score = 1000

\* C27 as claimed: the pass probability every compliance draw is compared with
\* lies in [0, 0.999] (0..999 per mille), whatever the pass rates, deltas,
\* outage empathy penalty and agent bonus configured, in every context.
C27_PassProbabilityClamped ==
    (fcall.name = "sample_compliance" /\ fret.done)
    => \A i \in DOMAIN fret.used : fret.used[i] >= 0 /\ fret.used[i] <= 999

\* estimate_daily_volume called on a Friday and a Saturday, with and without
\* incident flags, under several baselines (one negative), factors and boosts
VolumeCalls ==
    [name : {"estimate_daily_volume"}, day : {5, 6}, outage_flag : BOOLEAN,
     app_issue_flag : BOOLEAN, factor10 : {5, 10, 15},
     base_weekday : {0 - 5, 0, 7, 10}, base_weekend : {3, 10}, reduction10 : {2, 10},
     boost : {<<25, 40>>, <<30, 30>>}, seed : Seeds]

\* the configuration estimate_daily_volume is called under
VolumeConfig(c) ==
    [BaseConfig EXCEPT !.calendar.weekday_factors10 = << <<"Fri", c.factor10>>, <<"Sat", c.factor10>> >>,
                       !.volume = [base_weekday |-> c.base_weekday,
                                   base_weekend |-> c.base_weekend,
                                   reduction10 |-> c.reduction10,
                                   incident_boost_min |-> c.boost[1],
                                   incident_boost_max |-> c.boost[2]]]

CallEstimateDailyVolume ==
    /\ fcall.name = "estimate_daily_volume"
    /\ ~fret.done
    /\ fret' = [done |-> TRUE,
                value |-> estimate_daily_volume(
                              DayPlan(fcall.day, VolumeConfig(fcall),
                                      IF fcall.outage_flag THEN {fcall.day} ELSE {},
                                      IF fcall.app_issue_flag THEN {fcall.day} ELSE {}),
                              VolumeConfig(fcall), fcall.seed)]
    /\ UNCHANGED <<fcall, rngVars, weightVars, allocVars, genVars, stepVars>>

\* C18: estimated = max(0, round(base * weekday_factor * (1 + boost) * reduction))
\* with the weekend baseline on weekend days and the weekday baseline otherwise,
\* boost = 0 on a day with neither flag and within the configured [min, max]
\* otherwise; the result is never negative.
C18_EstimatedVolume ==
    (fcall.name = "estimate_daily_volume" /\ fret.done)
    => LET base == IF WeekdayIndex(fcall.day) >= 5 THEN fcall.base_weekend
                   ELSE fcall.base_weekday
           boosts == IF fcall.outage_flag \/ fcall.app_issue_flag
                     THEN fcall.boost[1]..fcall.boost[2] ELSE {0}
       IN  /\ fret.value >= 0
           /\ \E b \in boosts :
                 fret.value = Max(0, RoundHalfEven(base * fcall.factor10 * (100 + b)
                                                       * fcall.reduction10, 10000))

\* a weekend day under an app issue whose boost shows in the volume
C18_Witness ==
    /\ fcall.name = "estimate_daily_volume"
    /\ fret.done
    /\ WeekdayIndex(fcall.day) >= 5
    /\ fcall.app_issue_flag /\ ~fcall.outage_flag
    /\ fret.value > RoundHalfEven(fcall.base_weekend * fcall.factor10 * fcall.reduction10, 100)

(***************************************************************************)
(* The configuration (src/generator/config.py).  A node of the document is *)
(* a scalar, a list or a mapping from keys (code points) to nodes.         *)
(***************************************************************************)
Scalar(n) == [scalar |-> n]
List(items) == [list |-> items]
Dict(entries) == [dict |-> entries]

\* isinstance(node, dict)
IsDict(node) == DOMAIN node = {"dict"}

\* a plausible slip: dict.update, the override's mappings replacing the base's
ShallowMerge(a, b) == b @@ a

RECURSIVE deep_merge(_, _)
\* _deep_merge on the entries of two mappings
deep_merge(a, b) ==
    [k \in DOMAIN a \cup DOMAIN b |->
        IF k \notin DOMAIN b THEN a[k]
        ELSE IF IsDict(b[k]) /\ k \in DOMAIN a /\ IsDict(a[k])
        THEN Dict(deep_merge(a[k].dict, b[k].dict))
        ELSE b[k]]

RECURSIVE Split(_)
\* str.split("."): the segments between the dots (code point 46)
Split(path) ==
    IF \A i \in DOMAIN path : path[i] # 46 THEN <<path>>
    ELSE LET i == CHOOSE i \in DOMAIN path :
                      path[i] = 46 /\ \A j \in 1..(i - 1) : path[j] # 46
         IN  <<SubSeq(path, 1, i - 1)>> \o Split(SubSeq(path, i + 1, Len(path)))

RECURSIVE WalkPartial(_, _, _)
\* a plausible slip: the node reached so far returned when a segment is missing
WalkPartial(node, parts, default) ==
    IF parts = <<>> THEN node
    ELSE IF ~IsDict(node) \/ Head(parts) \notin DOMAIN node.dict THEN node
    ELSE WalkPartial(node.dict[Head(parts)], Tail(parts), default)

RECURSIVE Walk(_, _, _)
\* config.py lines 49-53: the loop over the segments
Walk(node, parts, default) ==
    IF parts = <<>> THEN node
    ELSE IF ~IsDict(node) \/ Head(parts) \notin DOMAIN node.dict THEN default
    ELSE Walk(node.dict[Head(parts)], Tail(parts), default)

\* get(cfg, path, default)
get(cfg, path, default) == Walk(cfg.data, Split(path), default)

MaxPathLen == 3

\* the keys of the documents: "a" and "b"
ConfigKeys == {<<97>>, <<98>>}

\* the mappings over ConfigKeys whose values are taken from nodes
DictsOver(nodes) == UNION {[D -> nodes] : D \in SUBSET ConfigKeys}

\* the documents tried: mappings of scalars, lists and mappings of these
ConfigDicts ==
    DictsOver({Scalar(2), List(<<2>>)}
              \cup {Dict(d) : d \in DictsOver({Scalar(1), List(<<1, 1>>)})})

\* the documents get is called on: the above, one with an empty key and a key
\* holding a dot, and a document that is not a mapping
ConfigData ==
    {Dict(d) : d \in ConfigDicts}
    \cup {Dict((<<>> :> Scalar(3)) @@ (<<97, 46, 98>> :> Scalar(4))
               @@ (<<97>> :> Dict(<<98>> :> Dict(<<97>> :> Scalar(5))))),
          List(<<1>>)}

ConfigCalls ==
    [name : {"deep_merge"}, a : ConfigDicts, b : ConfigDicts]
    \cup [name : {"get"}, data : ConfigData, path : SeqsUpTo({97, 98, 46}, MaxPathLen),
          default : {Scalar(0 - 1)}]

CallDeepMerge ==
    /\ fcall.name = "deep_merge"
    /\ ~fret.done
    /\ fret' = [done |-> TRUE, value |-> deep_merge(fcall.a, fcall.b)]
    /\ UNCHANGED <<fcall, rngVars, weightVars, allocVars, genVars, stepVars>>

CallGet ==
    /\ fcall.name = "get"
    /\ ~fret.done
    /\ fret' = [done |-> TRUE,
                value |-> get([data |-> fcall.data], fcall.path, fcall.default)]
    /\ UNCHANGED <<fcall, rngVars, weightVars, allocVars, genVars, stepVars>>

RECURSIVE IsMerge(_, _, _)
\* out is the merge of the override b into the base a, as the configuration
\* input is described: mappings merged key by key, anything else replaced
IsMerge(out, a, b) ==
    /\ DOMAIN out = DOMAIN a \cup DOMAIN b
    /\ \A k \in DOMAIN out :
          IF k \in DOMAIN a /\ k \in DOMAIN b /\ IsDict(a[k]) /\ IsDict(b[k])
          THEN IsDict(out[k]) /\ IsMerge(out[k].dict, a[k].dict, b[k].dict)
          ELSE IF k \in DOMAIN b THEN out[k] = b[k]
          ELSE out[k] = a[k]

\* C19: for every key, two mappings are merged recursively, otherwise the
\* override's value replaces the base's, keys of the base alone keep their
\* value, and no other key appears.
C19_DeepMerge ==
    (fcall.name = "deep_merge" /\ fret.done) => IsMerge(fret.value, fcall.a, fcall.b)

\* a key holding mappings on both sides with different keys, and a mapping of
\* the base replaced by a list
C19_Witness ==
    /\ fcall.name = "deep_merge"
    /\ fret.done
    /\ DOMAIN fcall.a = ConfigKeys /\ DOMAIN fcall.b = ConfigKeys
    /\ fcall.a[<<97>>] = Dict(<<97>> :> Scalar(1))
    /\ fcall.b[<<97>>] = Dict(<<98>> :> List(<<1, 1>>))
    /\ IsDict(fcall.a[<<98>>])
    /\ fcall.b[<<98>>] = List(<<2>>)

RECURSIVE NodeAt(_, _)
\* the node stored under data at the end of the segments parts
NodeAt(data, parts) ==
    IF parts = <<>> THEN data
    ELSE NodeAt(data, SubSeq(parts, 1, Len(parts) - 1)).dict[parts[Len(parts)]]

RECURSIVE Stored(_, _)
\* whether every segment of parts is present, each in a mapping
Stored(data, parts) ==
    \/ parts = <<>>
    \/ /\ Stored(data, SubSeq(parts, 1, Len(parts) - 1))
       /\ IsDict(NodeAt(data, SubSeq(parts, 1, Len(parts) - 1)))
       /\ parts[Len(parts)] \in DOMAIN NodeAt(data, SubSeq(parts, 1, Len(parts) - 1)).dict

\* C20: get returns the default when a segment of the dotted path is absent or
\* an intermediate node is not a mapping, and the node stored at the path
\* otherwise.
C20_GetNeverFails ==
    (fcall.name = "get" /\ fret.done)
    => fret.value = IF Stored(fcall.data, Split(fcall.path))
                    THEN NodeAt(fcall.data, Split(fcall.path))
                    ELSE fcall.default

\* a node found through two mappings
C20_Witness ==
    /\ fcall.name = "get"
    /\ fret.done
    /\ fcall.path = <<97, 46, 98>>
    /\ fret.value = Scalar(1)

(***************************************************************************)
(* The weight resolver called on its own (weights.py lines 24-37)          *)
(***************************************************************************)
\* the adjustment tables tried: deltas that cancel the base exactly, deltas
\* beyond the significand, a label the base does not hold
ResolveTables ==
    {EmptyTable, [k \in {"Transfer"} |-> 1], [k \in {"Transfer"} |-> 16],
     [k \in {"Transfer"} |-> 0 - 16], [k \in {"Loan"} |-> 1],
     [k \in WLabels |-> IF k = "Transfer" THEN 0 - 1 ELSE 0],
     [k \in WLabels |-> 0 - 2]}

\* intent_weights called under a base table and the adjustments of the time of
\* day, the agent and the outage, on a day with or without an outage
ResolveCalls ==
    [name : {"intent_weights"},
     base : {EmptyTable, [k \in {"Transfer"} |-> 1],
             [k \in WLabels |-> IF k = "Transfer" THEN 1 ELSE 0],
             [k \in WLabels |-> IF k = "Transfer" THEN 2 ELSE 1]},
     time_of_day : ResolveTables, agent : ResolveTables, outage : ResolveTables,
     outage_flag : BOOLEAN]

\* the intents namespace of the configuration of the call
ResolveConfig(c) ==
    [p \in {"base", "time_of_day", "agent", "incident.outage"} |->
        CASE p = "base" -> c.base
          [] p = "time_of_day" -> c.time_of_day
          [] p = "agent" -> c.agent
          [] p = "incident.outage" -> c.outage]

CallIntentWeights ==
    /\ fcall.name = "intent_weights"
    /\ ~fret.done
    /\ fret' = [done |-> TRUE,
                value |-> intent_weights(ResolveConfig(fcall), fcall.outage_flag, FALSE)]
    /\ UNCHANGED <<fcall, rngVars, weightVars, allocVars, genVars, stepVars>>

\* the adjustments the call applies, and the labels of the base and of these
AppliedTables(c) ==
    {c.time_of_day, c.agent} \cup (IF c.outage_flag THEN {c.outage} ELSE {})
AppliedLabels(c) == DOMAIN c.base \cup UNION {DOMAIN t : t \in AppliedTables(c)}

\* base[label] plus every applied delta of the label, a missing entry counting 0
SummedWeight(c, k) ==
    TableGet(c.base, k, 0) + TableGet(c.time_of_day, k, 0) + TableGet(c.agent, k, 0)
        + (IF c.outage_flag THEN TableGet(c.outage, k, 0) ELSE 0)

\* |x|
Abs(x) == IF x < 0 THEN 0 - x ELSE x

\* the weight <<num, den>> equals pn / pd within the tolerance of a float
WithinTolerance(w, pn, pd) ==
    Abs(w[1] * pd - pn * w[2]) * (2 ^ (MantissaBits - 1)) <= w[2] * pd

\* C22 as claimed: the table returned holds every label of the base and of the
\* applied adjustments, each with max(0, base + sum of its deltas) over the sum
\* of these clamped values (within floating tolerance), or with 1/n when that
\* sum is 0; the sums being symmetric in the adjustments, the result is the
\* same in every order.
C22_ResolvedWeightFormula ==
    (fcall.name = "intent_weights" /\ fret.done)
    => LET clamped == [k \in AppliedLabels(fcall) |-> Max(0, SummedWeight(fcall, k))]
           total == SumOver(clamped, AppliedLabels(fcall))
       IN  /\ DOMAIN fret.value = AppliedLabels(fcall)
           /\ \A k \in AppliedLabels(fcall) :
                 IF total = 0
                 THEN WithinTolerance(fret.value[k], 1, Cardinality(AppliedLabels(fcall)))
                 ELSE WithinTolerance(fret.value[k], clamped[k], total)

(***************************************************************************)
(* The documents as Python objects (config.py lines 12-19, 31-41, cli.py   *)
(* lines 157-159): a heap of mappings and lists, addressed by position; a  *)
(* cell is a scalar or a reference to an object; the entries of an object  *)
(* are cells under keys (the index i of a list is the key <<i>>)           *)
(***************************************************************************)
IsRef(c) == DOMAIN c = {"ref"}

\* isinstance(c, dict) for the cell c
IsDictCell(h, c) == IsRef(c) /\ h[c.ref].kind = "dict"

RECURSIVE SetToSeq(_)
\* the keys of an object, one after the other
SetToSeq(S) ==
    IF S = {} THEN <<>>
    ELSE LET x == CHOOSE x \in S : TRUE IN <<x>> \o SetToSeq(S \ {x})

RECURSIVE Store(_, _)
RECURSIVE StoreItems(_, _, _, _)
\* yaml.safe_load: the entries of a mapping stored one by one
StoreItems(h, entries, keys, acc) ==
    IF keys = <<>> THEN [heap |-> h, items |-> acc]
    ELSE LET r == Store(h, entries[Head(keys)])
         IN  StoreItems(r.heap, entries, Tail(keys), (Head(keys) :> r.cell) @@ acc)

\* yaml.safe_load: the node of a document as a cell of the heap
Store(h, node) ==
    IF DOMAIN node = {"scalar"} THEN [heap |-> h, cell |-> node]
    ELSE IF DOMAIN node = {"list"}
    THEN [heap |-> Append(h, [kind |-> "list",
                              items |-> [k \in {<<i>> : i \in DOMAIN node.list} |->
                                            [scalar |-> node.list[k[1]]]]]),
          cell |-> [ref |-> Len(h) + 1]]
    ELSE LET r == StoreItems(h, node.dict, SetToSeq(DOMAIN node.dict), <<>>)
         IN  [heap |-> Append(r.heap, [kind |-> "dict", items |-> r.items]),
              cell |-> [ref |-> Len(r.heap) + 1]]

RECURSIVE Load(_, _)
\* the document a cell holds
Load(h, c) ==
    IF ~IsRef(c) THEN c
    ELSE IF h[c.ref].kind = "list"
    THEN List([i \in 1..Cardinality(DOMAIN h[c.ref].items) |-> h[c.ref].items[<<i>>].scalar])
    ELSE Dict([k \in DOMAIN h[c.ref].items |-> Load(h, h[c.ref].items[k])])

RECURSIVE Reach(_, _)
\* the objects reachable from a cell
Reach(h, c) ==
    IF ~IsRef(c) THEN {}
    ELSE {c.ref} \cup UNION {Reach(h, h[c.ref].items[k]) : k \in DOMAIN h[c.ref].items}

\* a plausible slip: dict(a) in place of deepcopy(a), the top object alone is new
ShallowCopy(h, c) ==
    IF ~IsRef(c) THEN [heap |-> h, cell |-> c]
    ELSE [heap |-> Append(h, h[c.ref]), cell |-> [ref |-> Len(h) + 1]]

RECURSIVE DeepCopy(_, _)
RECURSIVE CopyItems(_, _, _, _)
\* copy.deepcopy: the entries of an object copied one by one
CopyItems(h, items, keys, acc) ==
    IF keys = <<>> THEN [heap |-> h, items |-> acc]
    ELSE LET r == DeepCopy(h, items[Head(keys)])
         IN  CopyItems(r.heap, items, Tail(keys), (Head(keys) :> r.cell) @@ acc)

\* copy.deepcopy of a cell: a scalar is itself, an object is a new object whose
\* entries are copies
DeepCopy(h, c) ==
    IF ~IsRef(c) THEN [heap |-> h, cell |-> c]
    ELSE LET r == CopyItems(h, h[c.ref].items, SetToSeq(DOMAIN h[c.ref].items), <<>>)
         IN  [heap |-> Append(r.heap, [kind |-> h[c.ref].kind, items |-> r.items]),
              cell |-> [ref |-> Len(r.heap) + 1]]

RECURSIVE DeepMergeObjects(_, _, _)
RECURSIVE MergeInto(_, _, _, _)
\* config.py lines 14-18: the loop over b.items(), assigning into the object out
MergeInto(h, out, b, keys) ==
    IF keys = <<>> THEN h
    ELSE LET k == Head(keys)
             v == h[b].items[k]
             r == IF IsDictCell(h, v) /\ k \in DOMAIN h[out].items
                       /\ IsDictCell(h, h[out].items[k])
                  THEN DeepMergeObjects(h, h[out].items[k].ref, v.ref)
                  ELSE DeepCopy(h, v)
         IN  MergeInto([r.heap EXCEPT ![out].items = (k :> r.cell) @@ @], out, b, Tail(keys))

\* _deep_merge on the mappings at a and b: the heap afterwards and the cell returned
DeepMergeObjects(h, a, b) ==
    LET c == DeepCopy(h, [ref |-> a])
    IN  [heap |-> MergeInto(c.heap, c.cell.ref, b, SetToSeq(DOMAIN h[b].items)),
         cell |-> c.cell]

\* dict.setdefault(k, {}) on the mapping at o
SetDefault(h, o, k) ==
    IF k \in DOMAIN h[o].items THEN [heap |-> h, cell |-> h[o].items[k]]
    ELSE [heap |-> Append([h EXCEPT ![o].items = (k :> [ref |-> Len(h) + 1]) @@ @],
                          [kind |-> "dict", items |-> <<>>]),
          cell |-> [ref |-> Len(h) + 1]]

\* the keys calendar, incidents and outages_count, among the keys of the documents
CalendarKey == <<97>>
IncidentsKey == <<98>>
OutagesKey == <<97>>

\* cli.py line 159 on the merged mapping at root: the heap it leaves, also when
\* a value on the way is not a mapping and the statement raises
SetOutages(h, root, n) ==
    LET r1 == SetDefault(h, root, CalendarKey)
        r2 == SetDefault(r1.heap, r1.cell.ref, IncidentsKey)
    IN  IF ~IsDictCell(r1.heap, r1.cell) THEN r1.heap
        ELSE IF ~IsDictCell(r2.heap, r2.cell) THEN r2.heap
        ELSE [r2.heap EXCEPT ![r2.cell.ref].items = (OutagesKey :> [scalar |-> n]) @@ @]

\* the base and override documents tried: empty, scalars, lists and mappings
\* under the keys of the override path, down to its last key
MergeDocs ==
    {<<>>,
     CalendarKey :> Scalar(2),
     CalendarKey :> List(<<2>>),
     CalendarKey :> Dict(IncidentsKey :> Scalar(1)),
     CalendarKey :> Dict(IncidentsKey :> Dict(OutagesKey :> Scalar(1))),
     (CalendarKey :> Dict(OutagesKey :> List(<<1, 1>>))) @@ (IncidentsKey :> Scalar(2)),
     IncidentsKey :> Dict(OutagesKey :> Scalar(1)),
     CalendarKey :> Dict(IncidentsKey :> List(<<2>>))}

MergeCalls ==
    [name : {"load_and_merge_configs"}, base_doc : MergeDocs, over_doc : MergeDocs,
     outages_arg : {3}]

\* load_and_merge_configs: both documents are loaded and merged
CallLoadAndMerge ==
    /\ fcall.name = "load_and_merge_configs"
    /\ "heap" \notin DOMAIN fret
    /\ \E sa \in {Store(<<>>, Dict(fcall.base_doc))} :
         \E sb \in {Store(sa.heap, Dict(fcall.over_doc))} :
           \E m \in {DeepMergeObjects(sb.heap, sa.cell.ref, sb.cell.ref)} :
             fret' = [done |-> FALSE, heap |-> m.heap, base_cfg |-> sa.cell,
                      overrides_cfg |-> sb.cell, eff |-> m.cell]
    /\ UNCHANGED <<fcall, rngVars, weightVars, allocVars, genVars, stepVars>>

\* main: the --outages override written into the merged configuration
CallOutagesOverride ==
    /\ fcall.name = "load_and_merge_configs"
    /\ "heap" \in DOMAIN fret
    /\ ~fret.done
    /\ fret' = [fret EXCEPT !.done = TRUE,
                            !.heap = SetOutages(fret.heap, fret.eff.ref, fcall.outages_arg)]
    /\ UNCHANGED <<fcall, rngVars, weightVars, allocVars, genVars, stepVars>>

\* C30: _deep_merge leaves both arguments unchanged and returns a structure
\* that shares no object with either, so that after the merge, and after the
\* --outages override has been written into the merged configuration, the base
\* and override documents are what was loaded.
C30_MergeSharesNothing ==
    (fcall.name = "load_and_merge_configs" /\ "heap" \in DOMAIN fret)
    => /\ Load(fret.heap, fret.base_cfg) = Dict(fcall.base_doc)
       /\ Load(fret.heap, fret.overrides_cfg) = Dict(fcall.over_doc)
       /\ Reach(fret.heap, fret.eff)
             \cap (Reach(fret.heap, fret.base_cfg) \cup Reach(fret.heap, fret.overrides_cfg)) = {}

\* the override has changed the merged configuration inside a mapping that
\* came from the base document alone
C30_Witness ==
    /\ fcall.name = "load_and_merge_configs"
    /\ "heap" \in DOMAIN fret
    /\ fret.done
    /\ CalendarKey \in DOMAIN fcall.base_doc
    /\ IsDict(fcall.base_doc[CalendarKey])
    /\ CalendarKey \notin DOMAIN fcall.over_doc
    /\ Load(fret.heap, fret.eff) # Dict(deep_merge(fcall.base_doc, fcall.over_doc))

(***************************************************************************)
(* Intent sampling (features.py lines 83-102, cli.py lines 83-85)          *)
(***************************************************************************)
\* the intents.base tables tried: none, one to four labels, labels of weight 0
IntentTables ==
    {<<>>,
     << <<"Transfer", 1>> >>,
     << <<"Online-Banking", 1>>, <<"Transfer", 1>> >>,
     << <<"Online-Banking", 0>>, <<"Transfer", 0>>, <<"Loan", 0>> >>,
     << <<"Online-Banking", 3>>, <<"Transfer", 0>>, <<"Loan", 1>> >>,
     << <<"Online-Banking", 1>>, <<"Transfer", 1>>, <<"Loan", 1>>, <<"Technical Support", 1>> >>}

IntentCalls ==
    [name : {"sample_intent"}, seed : CallSeeds, agent : AAgents,
     bucket : {"Morning", "Evening"}, intents : IntentTables]

\* the part of Context sample_intent reads
IntentContext(c) ==
    [date |-> "2024-01-05", agent_name |-> c.agent, time_of_day_bucket |-> c.bucket,
     outage_flag |-> FALSE, app_issue_flag |-> FALSE]

\* sample_intent, and the intent the record takes from what it returns
CallSampleIntent ==
    /\ fcall.name = "sample_intent"
    /\ ~fret.done
    /\ fret' = [done |-> TRUE,
                value |-> [chosen |-> ChosenIntents(IntentContext(fcall),
                                         [BaseConfig EXCEPT !.intents = fcall.intents],
                                         fcall.seed),
                           intent |-> sample_intent(IntentContext(fcall),
                                         [BaseConfig EXCEPT !.intents = fcall.intents],
                                         fcall.seed)]]
    /\ UNCHANGED <<fcall, rngVars, weightVars, allocVars, genVars, stepVars>>

\* the level of the uniform draw the call takes for the count
CountDraw(c) ==
    RngUniform(GenSeed(c.seed, FieldKey("intent_count", IntentContext(c), None)),
               0, CountLevels)

\* the count the thresholds 0.70 and 0.90 give for the draw u / CountLevels
CountClaimed(u) ==
    IF 10 * u < 7 * CountLevels THEN 1 ELSE IF 10 * u < 9 * CountLevels THEN 2 ELSE 3

\* C25: with count 1 for a draw p < 0.70, 2 for 0.70 <= p < 0.90 and 3
\* otherwise, sample_intent chooses min(count, number of labels) labels of the
\* table, pairwise distinct, and the record's intent is the first of them.
C25_IntentSampling ==
    (fcall.name = "sample_intent" /\ fret.done)
    => LET labels == {fcall.intents[i][1] : i \in DOMAIN fcall.intents}
           chosen == fret.value.chosen
       IN  /\ Len(chosen) = Min(CountClaimed(CountDraw(fcall)), Cardinality(labels))
           /\ \A i \in DOMAIN chosen : chosen[i] \in labels
           /\ \A i, j \in DOMAIN chosen : i # j => chosen[i] # chosen[j]
           /\ chosen # <<>> => fret.value.intent = chosen[1]

\* three labels chosen out of four
C25_Witness ==
    /\ fcall.name = "sample_intent"
    /\ fret.done
    /\ Len(fcall.intents) = 4
    /\ Len(fret.value.chosen) = 3

(***************************************************************************)
(* The deterministic identifier (rng.py lines 49-55)                       *)
(***************************************************************************)
\* uuid4_deterministic called on the instance of any global seed with a fresh
\* generator of any of these seeds
UuidCalls ==
    [name : {"uuid4_deterministic"}, global_seed : Seeds,
     seed_int : CallSeeds \cup {255, 256, 4660, 65520}]

CallUuid4Deterministic ==
    /\ fcall.name = "uuid4_deterministic"
    /\ ~fret.done
    /\ fret' = [done |-> TRUE, value |-> Uuid4Deterministic(fcall.seed_int)]
    /\ UNCHANGED <<fcall, rngVars, weightVars, allocVars, genVars, stepVars>>

\* bit k of the byte x, bit 0 the lowest
Bit(x, k) == (x \div (2 ^ k)) % 2

\* the value of a hexadecimal digit given as a code point
HexValue(c) == IF c \in 48..57 THEN c - 48 ELSE c - 87

\* the 16 bytes a canonical identifier text spells
BytesOfUuid(text) ==
    LET digits == SelectSeq(text, LAMBDA c : c # 45)
    IN  [j \in 1..16 |-> 16 * HexValue(digits[2 * j - 1]) + HexValue(digits[2 * j])]

\* C21: the identifier returned is the canonical text of the 16 bytes drawn
\* from the supplied generator with the high nibble of byte 6 set to 0100 and
\* the top two bits of byte 8 set to 10, every other bit as drawn; it depends
\* on nothing but these bytes.
C21_UuidFromDrawnBytes ==
    (fcall.name = "uuid4_deterministic" /\ fret.done)
    => /\ Len(fret.value) = 36
       /\ \A i \in 1..36 :
             IF i \in {9, 14, 19, 24} THEN fret.value[i] = 45
             ELSE fret.value[i] \in 48..57 \cup 97..102
       /\ \A j \in 1..16, k \in 0..7 :
             Bit(BytesOfUuid(fret.value)[j], k)
                 = IF j = 7 /\ k >= 4 THEN (IF k = 6 THEN 1 ELSE 0)
                   ELSE IF j = 9 /\ k >= 6 THEN (IF k = 7 THEN 1 ELSE 0)
                   ELSE Bit(RngBytes(fcall.seed_int, j), k)

\* bytes drawn with 0010 where the version goes and 01 where the variant goes
\* (bits to clear and bits to set in both), and bits set below them
C21_Witness ==
    /\ fcall.name = "uuid4_deterministic"
    /\ fret.done
    /\ RngBytes(fcall.seed_int, 7) \div 16 = 2
    /\ RngBytes(fcall.seed_int, 7) % 16 # 0
    /\ RngBytes(fcall.seed_int, 9) \div 64 = 1
    /\ RngBytes(fcall.seed_int, 9) % 64 # 0

CallInit ==
    /\ fcall \in CalendarCalls \cup NpsCalls \cup OpsCalls \cup ComplianceCalls
                \cup VolumeCalls \cup ConfigCalls \cup UuidCalls
                \cup ResolveCalls \cup IntentCalls \cup MergeCalls
    /\ fret = [done |-> FALSE]
    /\ RngIdle
    /\ WeightsIdle
    /\ AllocIdle
    /\ GenIdle
    /\ StepIdle

CallNext ==
    \/ CallSelectOutageDays
    \/ CallMakeCalendar
    \/ CallSampleNps
    \/ CallSampleOpsMetrics
    \/ CallSampleCompliance
    \/ CallEstimateDailyVolume
    \/ CallDeepMerge
    \/ CallGet
    \/ CallUuid4Deterministic
    \/ CallIntentWeights
    \/ CallSampleIntent
    \/ CallLoadAndMerge
    \/ CallOutagesOverride

SpecCalls == CallInit /\ [][CallNext]_vars

====
